---- MODULE Spec2Model ----
(***************************************************************************)
(* Offline reconciliation engine of the asset tracker: the remote          *)
(* authority (server/server.js), the local store (db.ts), the remote       *)
(* client and sync coordinator (api.ts) and the pair lifecycle components  *)
(* (PairBuilder.tsx, PairList.tsx).                                        *)
(***************************************************************************)
EXTENDS Integers, Sequences, FiniteSets, TLC

(***************************************************************************)
(* Bounds of the model.                                                    *)
(***************************************************************************)
MaxClock == 2       \* ticks of the wall clock
TicksPerDay == 2    \* ticks in one calendar day
MaxLoad == 6        \* batch requests plus batch items the authority receives
MaxFaultLoad == 5   \* the same, in the runs with failing database statements
MaxDbFaults == 1    \* database errors injected
MaxPairs == 2       \* local pairs ever created
MaxBatches == 2     \* upload batches ever queued
MaxRuns == 1        \* online transitions whose replay and refresh are still running
MaxNetFaults == 1   \* remote calls that fail in transit
MaxIssued == 2      \* UPDATEs of asset_tags issued and not yet executed
MaxOtherLoad == 2   \* batch requests plus batch items of other devices
MaxHistoryLoad == 4 \* batch requests plus batch items, in the runs with replaces
MaxReplaces == 1    \* replace requests the authority receives
MaxSearchLoad == 3  \* batch requests plus batch items, in the runs with searches
MaxLogins == 2      \* login attempts of the operator
MaxOverlap == 2     \* runs of the replay and the refresh under way at the same time

(***************************************************************************)
(* Values.                                                                 *)
(***************************************************************************)
NoSerial == ""
sampleTags == {"AT1", "AT2"}
RemoteUser == "admin"

\* Request bodies the remote authority is driven with: arrays of
\* {asset_tag, serial, scanned_at}; AT9 is a tag the authority does not know.
BatchItems ==
  { [asset_tag |-> "AT1", serial |-> "S1", scanned_at |-> 0],
    [asset_tag |-> "AT1", serial |-> "S2", scanned_at |-> 1],
    [asset_tag |-> "AT9", serial |-> "S1", scanned_at |-> 0] }
BatchBodies ==
  {<<>>} \cup {<<a>> : a \in BatchItems} \cup {<<a, b>> : a, b \in BatchItems}

VARIABLES
  now,          \* wall clock, in ticks
  asset_tags,   \* remote table asset_tags: tag -> row
  pairsTable,   \* remote table pairs: set of rows
  nextId,       \* remote AUTOINCREMENT sequence of pairs.id
  reqs,         \* POST /pairs/batch requests received, in arrival order
  updates,      \* UPDATE asset_tags statements issued and not yet executed
  dbFaults,     \* database errors injected so far
  replaces,     \* PUT /pairs/replace requests received, in arrival order
  searchOut     \* the response of the last GET /pairs/search

VARIABLES
  isOnline,     \* NetworkManager.isOnline
  pairs,        \* local table pairs: id -> row
  nextPairId,   \* key generator of the local table pairs
  uploadQueue,  \* local table uploadQueue: id -> row
  nextBatchId,  \* key generator of the local table uploadQueue
  assetTags,    \* local table assetTags (the asset-tag cache): tag -> row
  authTokens,   \* local table authTokens: id -> row
  isLoggedIn,   \* App.isLoggedIn
  login,        \* the login call of the Login screen
  replay,       \* running processOfflineQueue calls, by online transition
  sync,         \* running syncAssetTags calls, by online transition
  builder,      \* PairBuilder: the form and the admission in progress
  list,         \* PairList: the loaded pairs, its isOnline and its upload
  netFaults,    \* remote calls failed in transit so far
  remoteSeen    \* history: the greatest remote updated_at the cache has stored

adminVars == <<replaces, searchOut>>
serverVars == <<asset_tags, pairsTable, nextId, reqs, updates, dbFaults, adminVars>>
clientVars == <<isOnline, pairs, nextPairId, uploadQueue, nextBatchId, assetTags,
                authTokens, isLoggedIn, login, replay, sync, builder, list, netFaults, remoteSeen>>
vars == <<now, serverVars, clientVars>>

(***************************************************************************)
(* Timestamps.  CURRENT_TIMESTAMP of SQLite is the text                    *)
(* "YYYY-MM-DD HH:MM:SS"; Date.toISOString() is "YYYY-MM-DDTHH:MM:SS.sssZ".*)
(* A timestamp is the instant and the format of its text.                  *)
(***************************************************************************)
SqlTimestamp(t) == [t |-> t, fmt |-> "sql"]
IsoTimestamp(t) == [t |-> t, fmt |-> "iso"]
DayOf(ts) == ts.t \div TicksPerDay

\* Text comparison a > b of two timestamps, as SQLite compares TEXT values:
\* the date part first; on the same date the 11th character decides between
\* formats (' ' sorts before 'T'), and the time of day within one format.
TextGreater(a, b) ==
  IF DayOf(a) # DayOf(b) THEN DayOf(a) > DayOf(b)
  ELSE IF a.fmt # b.fmt THEN a.fmt = "iso"
  ELSE a.t > b.t

(***************************************************************************)
(* Remote authority: POST /api/pairs/batch.                                *)
(***************************************************************************)
\* No search has been answered yet
NoSearch ==
  [code |-> 0, query |-> [asset_tag |-> "", serial |-> ""], asset_tag |-> "", serial |-> "",
   status |-> "", history |-> <<>>]

NoResult == [status |-> "null", asset_tag |-> "", serial |-> "", message |-> ""]

ItemResult(status, item, message) ==
  [status |-> status, asset_tag |-> item.asset_tag, serial |-> item.serial,
   message |-> message]

\* results[index] = value, on a JavaScript array (indices from 1 here).
SetResultPush(results, index, value) ==
  (Cardinality(DOMAIN results) + 1 :> value) @@ results

SetResult(results, index, value) == (index :> value) @@ results

\* The array res.json(results) serialises: holes become null.
ResultsArray(results) ==
  LET n == IF DOMAIN results = {} THEN 0
           ELSE CHOOSE k \in DOMAIN results : \A j \in DOMAIN results : j <= k
  IN [k \in 1..n |-> IF k \in DOMAIN results THEN results[k] ELSE NoResult]

NewRequest(body) ==
  [body |-> body,
   pc |-> [i \in 1..Len(body) |-> "get1"],
   status |-> [i \in 1..Len(body) |-> ""],
   results |-> <<>>,
   completed |-> 0,
   responded |-> FALSE,
   response |-> <<>>,
   order |-> <<>>,
   quiet |-> (\A r \in 1..Len(reqs) : reqs[r].responded) /\ updates = {},
   tagsBefore |-> [t \in DOMAIN asset_tags |->
                     <<asset_tags[t].status, asset_tags[t].last_serial>>]]

\* results[index] = ...; completed++; if (completed === pairs.length) res.json(results)
Complete(req, i, result) ==
  LET results == SetResult(req.results, i, result)
      completed == req.completed + 1
      last == completed = Len(req.body)
  IN [req EXCEPT !.pc[i] = "done",
                 !.results = results,
                 !.completed = completed,
                 !.order = Append(@, i),
                 !.responded = @ \/ last,
                 !.response = IF last /\ ~req.responded THEN ResultsArray(results) ELSE @]

RECURSIVE SumLoad(_)
SumLoad(s) == IF s = <<>> THEN 0 ELSE 1 + Len(Head(s).body) + SumLoad(Tail(s))

ReceiveBatch(body, maxLoad) ==
  /\ SumLoad(reqs) + 1 + Len(body) <= maxLoad
  /\ reqs' = Append(reqs, NewRequest(body))
  /\ UNCHANGED <<now, asset_tags, pairsTable, nextId, updates, dbFaults, adminVars,
                 clientVars>>

\* The lookup of the asset tag going on whatever it finds
CheckAssetTagLax(r, i) ==
  /\ reqs[r].pc[i] = "get1"
  /\ reqs' = [reqs EXCEPT ![r].pc[i] = "get2"]
  /\ UNCHANGED <<now, asset_tags, pairsTable, nextId, updates, dbFaults, adminVars,
                 clientVars>>

\* db.get('SELECT * FROM asset_tags WHERE tag = ?') and its callback
CheckAssetTag(r, i) ==
  /\ reqs[r].pc[i] = "get1"
  /\ LET item == reqs[r].body[i] IN
       IF item.asset_tag \notin DOMAIN asset_tags
       THEN reqs' = [reqs EXCEPT ![r] =
                       Complete(@, i, ItemResult("missing_asset_tag", item, "Asset tag not found"))]
       ELSE reqs' = [reqs EXCEPT ![r].pc[i] = "get2"]
  /\ UNCHANGED <<now, asset_tags, pairsTable, nextId, updates, dbFaults, adminVars,
                 clientVars>>

PairExists(tag, serial) ==
  \E p \in pairsTable : p.asset_tag = tag /\ p.serial = serial

\* The lookup of the pair rejecting another serial for a tag in use
CheckExistingPairStrict(r, i) ==
  /\ reqs[r].pc[i] = "get2"
  /\ LET item == reqs[r].body[i]
         tag == asset_tags[item.asset_tag]
     IN IF tag.status = "used" /\ tag.last_serial # item.serial
        THEN reqs' = [reqs EXCEPT ![r] =
                        Complete(@, i, ItemResult("asset_tag_in_use", item, ""))]
        ELSE reqs' = [reqs EXCEPT ![r].pc[i] = "insert",
                                  ![r].status[i] =
                                     IF PairExists(item.asset_tag, item.serial)
                                     THEN "ok_overwrite_same_pair" ELSE "ok_inserted"]
  /\ UNCHANGED <<now, asset_tags, pairsTable, nextId, updates, dbFaults, adminVars,
                 clientVars>>

\* db.get('SELECT * FROM pairs WHERE asset_tag = ? AND serial = ?') and its callback
CheckExistingPair(r, i) ==
  /\ reqs[r].pc[i] = "get2"
  /\ LET item == reqs[r].body[i] IN
       reqs' = [reqs EXCEPT ![r].pc[i] = "insert",
                            ![r].status[i] =
                               IF PairExists(item.asset_tag, item.serial)
                               THEN "ok_overwrite_same_pair" ELSE "ok_inserted"]
  /\ UNCHANGED <<now, asset_tags, pairsTable, nextId, updates, dbFaults, adminVars,
                 clientVars>>

\* An insert that keeps the row it conflicts with
InsertKeep(table, id, tag, serial, user, at) ==
  table \cup {[id |-> id, asset_tag |-> tag, serial |-> serial,
               assigned_by |-> user, assigned_at |-> at]}

\* INSERT OR REPLACE INTO pairs: the row that conflicts on UNIQUE(asset_tag, serial)
\* is deleted and a new row, with a new id, is inserted.
InsertOrReplace(table, id, tag, serial, user, at) ==
  {p \in table : ~(p.asset_tag = tag /\ p.serial = serial)}
    \cup {[id |-> id, asset_tag |-> tag, serial |-> serial,
           assigned_by |-> user, assigned_at |-> at]}

\* db.run(INSERT OR REPLACE ...) and its success callback: the UPDATE of
\* asset_tags is issued without a callback, the result is stored.
InsertPair(r, i) ==
  /\ reqs[r].pc[i] = "insert"
  /\ LET item == reqs[r].body[i] IN
       /\ pairsTable' = InsertOrReplace(pairsTable, nextId, item.asset_tag, item.serial,
                                        RemoteUser, IsoTimestamp(item.scanned_at))
       /\ nextId' = nextId + 1
       /\ updates' = updates \cup {[id |-> nextId, tag |-> item.asset_tag,
                                    serial |-> item.serial]}
       /\ reqs' = [reqs EXCEPT ![r] =
                     Complete(@, i, ItemResult(reqs[r].status[i], item, ""))]
  /\ UNCHANGED <<now, asset_tags, dbFaults, adminVars, clientVars>>

\* The err branch of one of the three statements of an item.
DbError(r, i) ==
  /\ dbFaults < MaxDbFaults
  /\ reqs[r].pc[i] \in {"get1", "get2", "insert"}
  /\ dbFaults' = dbFaults + 1
  /\ reqs' = [reqs EXCEPT ![r] =
                Complete(@, i, ItemResult("error", reqs[r].body[i],
                                          IF reqs[r].pc[i] = "insert"
                                          THEN "Failed to save pair" ELSE "Database error"))]
  /\ UNCHANGED <<now, asset_tags, pairsTable, nextId, updates, adminVars, clientVars>>

\* UPDATE asset_tags SET status = 'used', last_serial = ?, updated_at = CURRENT_TIMESTAMP
\* WHERE tag = ?
UpdateAssetTagRow(tags, tag, serial, t) ==
  IF tag \in DOMAIN tags
  THEN [tags EXCEPT ![tag] = [status |-> "used", last_serial |-> serial,
                              updated_at |-> SqlTimestamp(t)]]
  ELSE tags

\* An issued UPDATE executes; statements of one connection run in parallel
\* mode, so issued statements execute in any order.
ApplyUpdate(u) ==
  /\ u \in updates
  /\ updates' = updates \ {u}
  /\ asset_tags' = UpdateAssetTagRow(asset_tags, u.tag, u.serial, now)
  /\ UNCHANGED <<now, pairsTable, nextId, reqs, dbFaults, adminVars, clientVars>>

Tick ==
  /\ now < MaxClock
  /\ now' = now + 1
  /\ UNCHANGED <<serverVars, clientVars>>

ServerInit ==
  /\ asset_tags = [t \in sampleTags |->
                     [status |-> "unused", last_serial |-> NoSerial,
                      updated_at |-> SqlTimestamp(0)]]
  /\ pairsTable = {}
  /\ nextId = 1
  /\ reqs = <<>>
  /\ updates = {}
  /\ dbFaults = 0
  /\ replaces = <<>>
  /\ searchOut = NoSearch

ClientIdle ==
  /\ isOnline = TRUE
  /\ pairs = <<>>
  /\ nextPairId = 1
  /\ uploadQueue = <<>>
  /\ nextBatchId = 1
  /\ assetTags = <<>>
  /\ authTokens = <<>>
  /\ isLoggedIn = FALSE
  /\ login = <<>>
  /\ replay = <<>>
  /\ sync = <<>>
  /\ builder = <<>>
  /\ list = <<>>
  /\ netFaults = 0
  /\ remoteSeen = <<>>

\* The remote authority alone: no client is attached.
ServerInitAll ==
  /\ now = 0
  /\ ServerInit
  /\ ClientIdle

BatchNext ==
  \/ \E r \in 1..Len(reqs) : \E i \in 1..Len(reqs[r].body) : CheckAssetTag(r, i)
  \/ \E r \in 1..Len(reqs) : \E i \in 1..Len(reqs[r].body) : CheckExistingPair(r, i)
  \/ \E r \in 1..Len(reqs) : \E i \in 1..Len(reqs[r].body) : InsertPair(r, i)
  \/ \E u \in updates : ApplyUpdate(u)

\* The remote authority under concurrent batch requests, with the clock.
ServerNext ==
  \/ \E body \in BatchBodies : ReceiveBatch(body, MaxLoad)
  \/ BatchNext
  \/ Tick

SpecServer == ServerInitAll /\ [][ServerNext]_vars

\* The remote authority with failing database statements.
ServerFaultNext ==
  \/ \E body \in BatchBodies : ReceiveBatch(body, MaxFaultLoad)
  \/ BatchNext
  \/ \E r \in 1..Len(reqs) : \E i \in 1..Len(reqs[r].body) : DbError(r, i)

SpecServerFaults == ServerInitAll /\ [][ServerFaultNext]_vars

(***************************************************************************)
(* Remote authority: GET /api/pairs/search and PUT /api/pairs/replace.     *)
(***************************************************************************)
\* Query strings of the search: an absent filter is ""
SearchQueries ==
  { [asset_tag |-> "AT1", serial |-> ""],
    [asset_tag |-> "", serial |-> "S1"],
    [asset_tag |-> "", serial |-> ""] }

\* WHERE 1=1 [AND p.asset_tag = ?] [AND p.serial = ?]
MatchingRows(q) ==
  {p \in pairsTable : /\ (q.asset_tag # "" => p.asset_tag = q.asset_tag)
                      /\ (q.serial # "" => p.serial = q.serial)}

\* The orders in which a SELECT without ORDER BY can return a set of rows
RowOrders(rows) ==
  {f \in [1..Cardinality(rows) -> rows] : \A p \in rows : \E i \in DOMAIN f : f[i] = p}

\* at.status as tag_status of the LEFT JOIN; rows[0].tag_status || 'unused'
TagStatus(tag) == IF tag \in DOMAIN asset_tags THEN asset_tags[tag].status ELSE "unused"

SearchResult(rows) ==
  [code |-> 200, query |-> NoSearch.query,
   asset_tag |-> rows[1].asset_tag, serial |-> rows[1].serial,
   status |-> TagStatus(rows[1].asset_tag),
   history |-> [i \in DOMAIN rows |->
                  [serial |-> rows[i].serial, assigned_at |-> rows[i].assigned_at,
                   assigned_by |-> rows[i].assigned_by]]]

\* A search that answers an empty result set with an empty history
SearchEmptyOk(q) ==
  /\ IF q.asset_tag = "" /\ q.serial = ""
     THEN searchOut' = [NoSearch EXCEPT !.code = 400, !.query = q]
     ELSE IF MatchingRows(q) = {}
     THEN searchOut' = [NoSearch EXCEPT !.code = 200, !.query = q]
     ELSE \E rows \in RowOrders(MatchingRows(q)) :
            searchOut' = [SearchResult(rows) EXCEPT !.query = q]
  /\ searchOut' # searchOut
  /\ UNCHANGED <<now, asset_tags, pairsTable, nextId, reqs, updates, dbFaults, replaces,
                 clientVars>>

\* GET /api/pairs/search: one SELECT and its callback; query is the query
\* string of the request
Search(q) ==
  /\ IF q.asset_tag = "" /\ q.serial = ""
     THEN searchOut' = [NoSearch EXCEPT !.code = 400, !.query = q]
     ELSE IF MatchingRows(q) = {}
     THEN searchOut' = [NoSearch EXCEPT !.code = 404, !.query = q]
     ELSE \E rows \in RowOrders(MatchingRows(q)) :
            searchOut' = [SearchResult(rows) EXCEPT !.query = q]
  /\ searchOut' # searchOut
  /\ UNCHANGED <<now, asset_tags, pairsTable, nextId, reqs, updates, dbFaults, replaces,
                 clientVars>>

\* Request bodies of the replace: an absent new value is ""
ReplaceBodies ==
  { [searchBy |-> "asset_tag", value |-> "AT1", new_asset_tag |-> "", new_serial |-> "S2"],
    [searchBy |-> "asset_tag", value |-> "AT1", new_asset_tag |-> "", new_serial |-> "S3"],
    [searchBy |-> "serial", value |-> "S1", new_asset_tag |-> "AT2", new_serial |-> ""],
    [searchBy |-> "serial", value |-> "S1", new_asset_tag |-> "AT9", new_serial |-> ""],
    [searchBy |-> "asset_tag", value |-> "AT1", new_asset_tag |-> "", new_serial |-> ""] }

NoRow == [id |-> 0, asset_tag |-> "", serial |-> "", assigned_by |-> "",
          assigned_at |-> IsoTimestamp(0)]

\* if (!searchBy || !value || (!new_asset_tag && !new_serial)) 400
NewReplace(body) ==
  LET bad == body.searchBy = "" \/ body.value = ""
               \/ (body.new_asset_tag = "" /\ body.new_serial = "")
  IN [body |-> body, pc |-> IF bad THEN "done" ELSE "find", code |-> IF bad THEN 400 ELSE 0,
      existing |-> NoRow, inserted |-> 0]

ReceiveReplace(body) ==
  /\ Len(replaces) < MaxReplaces
  /\ replaces' = Append(replaces, NewReplace(body))
  /\ UNCHANGED <<now, asset_tags, pairsTable, nextId, reqs, updates, dbFaults, searchOut,
                 clientVars>>

\* SELECT * FROM pairs WHERE <searchBy> = ? ORDER BY assigned_at DESC LIMIT 1:
\* the rows no other matching row is ordered before
LatestRows(searchBy, value) ==
  LET matching == {p \in pairsTable :
                     IF searchBy = "asset_tag" THEN p.asset_tag = value ELSE p.serial = value}
  IN {p \in matching : \A q \in matching : ~TextGreater(q.assigned_at, p.assigned_at)}

\* db.get(searchQuery) and its callback
FindExistingPair(r) ==
  /\ replaces[r].pc = "find"
  /\ LET latest == LatestRows(replaces[r].body.searchBy, replaces[r].body.value) IN
       IF latest = {}
       THEN replaces' = [replaces EXCEPT ![r].pc = "done", ![r].code = 404]
       ELSE \E p \in latest :
              replaces' = [replaces EXCEPT ![r].pc = "insert", ![r].existing = p]
  /\ UNCHANGED <<now, asset_tags, pairsTable, nextId, reqs, updates, dbFaults, searchOut,
                 clientVars>>

\* new_asset_tag || existingPair.asset_tag, new_serial || existingPair.serial
ReplacementOf(req) ==
  [asset_tag |-> IF req.body.new_asset_tag # "" THEN req.body.new_asset_tag
                 ELSE req.existing.asset_tag,
   serial |-> IF req.body.new_serial # "" THEN req.body.new_serial
              ELSE req.existing.serial]

\* db.run(INSERT INTO pairs ...) and its callback: the statement fails on
\* UNIQUE(asset_tag, serial); on success the UPDATE of asset_tags is issued
\* without waiting for it and the response is sent.
InsertReplacement(r) ==
  /\ replaces[r].pc = "insert"
  /\ LET new == ReplacementOf(replaces[r]) IN
       IF PairExists(new.asset_tag, new.serial)
       THEN /\ replaces' = [replaces EXCEPT ![r].pc = "done", ![r].code = 500]
            /\ UNCHANGED <<pairsTable, nextId, updates>>
       ELSE /\ pairsTable' = pairsTable \cup
                   {[id |-> nextId, asset_tag |-> new.asset_tag, serial |-> new.serial,
                     assigned_by |-> RemoteUser, assigned_at |-> IsoTimestamp(now)]}
            /\ nextId' = nextId + 1
            /\ updates' = updates \cup {[id |-> nextId, tag |-> new.asset_tag,
                                         serial |-> new.serial]}
            /\ replaces' = [replaces EXCEPT ![r].pc = "done", ![r].code = 200,
                                            ![r].inserted = nextId]
  /\ UNCHANGED <<now, asset_tags, reqs, dbFaults, searchOut, clientVars>>

\* Request bodies of devices whose clocks are behind or ahead of the
\* authority's, with a re-scan of (AT1, S1)
HistoryItems ==
  { [asset_tag |-> "AT1", serial |-> "S1", scanned_at |-> 0],
    [asset_tag |-> "AT1", serial |-> "S1", scanned_at |-> 2],
    [asset_tag |-> "AT1", serial |-> "S2", scanned_at |-> 2],
    [asset_tag |-> "AT9", serial |-> "S1", scanned_at |-> 0] }
HistoryBodies ==
  {<<>>} \cup {<<a>> : a \in HistoryItems} \cup {<<a, b>> : a, b \in HistoryItems}

HistoryInitAll ==
  /\ now = 1
  /\ ServerInit
  /\ ClientIdle

\* The remote authority under batch uploads, replaces and searches
HistoryNext ==
  \/ \E body \in HistoryBodies : ReceiveBatch(body, MaxHistoryLoad)
  \/ BatchNext
  \/ \E body \in ReplaceBodies : ReceiveReplace(body)
  \/ \E r \in 1..Len(replaces) : FindExistingPair(r)
  \/ \E r \in 1..Len(replaces) : InsertReplacement(r)
  \/ Tick

SpecHistory == HistoryInitAll /\ [][HistoryNext]_vars

\* The remote authority searched while it merges batches and replaces
SearchNext ==
  \/ \E body \in BatchBodies : ReceiveBatch(body, MaxSearchLoad)
  \/ BatchNext
  \/ \E body \in ReplaceBodies : ReceiveReplace(body)
  \/ \E r \in 1..Len(replaces) : FindExistingPair(r)
  \/ \E r \in 1..Len(replaces) : InsertReplacement(r)
  \/ \E q \in SearchQueries : Search(q)

SpecSearch == HistoryInitAll /\ [][SearchNext]_vars

(***************************************************************************)
(* Client: the local store (db.ts).                                        *)
(***************************************************************************)
MinOf(S) == CHOOSE k \in S : \A j \in S : k <= j

\* The rows of a table in primary-key order, as toArray() returns them.
RECURSIVE RowsInKeyOrder(_, _)
RowsInKeyOrder(table, keys) ==
  IF keys = {} THEN <<>>
  ELSE <<table[MinOf(keys)]>> \o RowsInKeyOrder(table, keys \ {MinOf(keys)})

\* table.put / table.add of one row, table.delete of one key
PutRow(table, key, row) == (key :> row) @@ table
DeleteRow(table, key) == [k \in DOMAIN table \ {key} |-> table[k]]

\* table.update(key, changes): nothing happens when the key is absent
UpdateStatus(table, key, status) ==
  IF key \in DOMAIN table THEN [table EXCEPT ![key].status = status] ELSE table

\* String.prototype.trim on the inputs the operator types or scans
Trim(s) == CASE s = " " -> "" [] s = " S1 " -> "S1" [] OTHER -> s
TagInputs == {"AT1", "AT9"}
SerialInputs == {" S1 ", "S2"}

\* dbHelpers.addPair
NewPair(id, asset_tag, serial) ==
  [id |-> id, asset_tag |-> asset_tag, serial |-> serial, scanned_at |-> now,
   status |-> "pending"]

\* dbHelpers.queueForUpload
NewBatch(id, items) ==
  [id |-> id, items |-> items, status |-> "pending", created_at |-> IsoTimestamp(now),
   error_message |-> ""]

\* dbHelpers.getPendingUploads
getPendingUploads ==
  RowsInKeyOrder(uploadQueue, {k \in DOMAIN uploadQueue : uploadQueue[k].status = "pending"})

\* dbHelpers.updateAssetTag
updateAssetTag(cache, tag, status, last_serial) ==
  PutRow(cache, tag, [tag |-> tag, status |-> status, last_serial |-> last_serial,
                      updated_at |-> IsoTimestamp(now)])

\* jwt.sign(..., {expiresIn: '24h'}): the exp claim of a token issued now
JwtExp == now + TicksPerDay

\* A token record keyed by its user
StoredTokenByUser(exp) ==
  [id |-> RemoteUser, token |-> exp, username |-> RemoteUser,
   expires_at |-> now + TicksPerDay]

\* dbHelpers.storeAuthToken: the record lives expires_in = 86400 seconds, one
\* day, from the moment it is stored; token is the exp claim of the JWT
StoredToken(exp) ==
  [id |-> "current", token |-> exp, username |-> RemoteUser,
   expires_at |-> now + TicksPerDay]

\* The record of a token issued and stored at the same tick
NewToken == StoredToken(JwtExp)

\* dbHelpers.getCurrentAuthToken: an expired token is deleted and not returned
TokensAfterRead ==
  IF "current" \in DOMAIN authTokens /\ authTokens["current"].expires_at <= now
  THEN DeleteRow(authTokens, "current") ELSE authTokens
HasToken == "current" \in DOMAIN TokensAfterRead

\* db.assetTags.orderBy('updated_at').last()?.updated_at
NoSince == [present |-> FALSE, ts |-> SqlTimestamp(0)]
LastUpdatedAt ==
  IF DOMAIN assetTags = {} THEN NoSince
  ELSE LET last == CHOOSE t \in DOMAIN assetTags :
                     \A u \in DOMAIN assetTags :
                       ~TextGreater(assetTags[u].updated_at, assetTags[t].updated_at)
       IN [present |-> TRUE, ts |-> assetTags[last].updated_at]

IsSuccess(result) == result.status \in {"ok_inserted", "ok_overwrite_same_pair"}

(***************************************************************************)
(* Client: remote calls (ApiClient.makeRequest).  A call is sent with the  *)
(* token the store holds at that moment, handled by the remote authority,  *)
(* and its response is received; it can fail in transit before or after    *)
(* the authority handled it.                                               *)
(***************************************************************************)
NoCall == [state |-> "none", hasToken |-> FALSE, token |-> 0, body |-> <<>>, code |-> 0,
           results |-> <<>>]
SentCall(body) ==
  [NoCall EXCEPT !.state = "sent", !.hasToken = HasToken,
                 !.token = IF HasToken THEN authTokens["current"].token ELSE 0,
                 !.body = body]

\* authenticateToken: 401 without a token, 403 when jwt.verify fails (here:
\* the exp claim has passed), otherwise the handler runs
AuthCode(call) ==
  IF ~call.hasToken THEN 401
  ELSE IF call.token <= now THEN 403
  ELSE 200

\* The body of POST /pairs/batch for a list of local pairs
UploadData(items) ==
  [i \in 1..Len(items) |-> [asset_tag |-> items[i].asset_tag, serial |-> items[i].serial,
                            scanned_at |-> items[i].scanned_at]]

\* POST /api/pairs/batch handled in one step, the items in index order and
\* every statement succeeding.  The UPDATEs of asset_tags stay issued, to be
\* executed later.
RECURSIVE MergeItems(_, _, _)
MergeItems(body, i, st) ==
  IF i > Len(body) THEN st
  ELSE LET item == body[i] IN
    IF item.asset_tag \notin DOMAIN asset_tags
    THEN MergeItems(body, i + 1,
           [st EXCEPT !.results =
              Append(@, ItemResult("missing_asset_tag", item, "Asset tag not found"))])
    ELSE LET existing == \E p \in st.table : p.asset_tag = item.asset_tag
                                             /\ p.serial = item.serial
             status == IF existing THEN "ok_overwrite_same_pair" ELSE "ok_inserted"
         IN MergeItems(body, i + 1,
              [table |-> InsertOrReplace(st.table, st.id, item.asset_tag, item.serial,
                                         RemoteUser, IsoTimestamp(item.scanned_at)),
               id |-> st.id + 1,
               issued |-> st.issued \cup {[id |-> st.id, tag |-> item.asset_tag,
                                           serial |-> item.serial]},
               results |-> Append(st.results, ItemResult(status, item, ""))])

\* authenticateToken, then the batch handler: the answered call and the
\* remote state it leaves
HandleBatch(call) ==
  IF AuthCode(call) # 200
  THEN [call |-> [call EXCEPT !.state = "handled", !.code = AuthCode(call)],
        table |-> pairsTable, id |-> nextId, issued |-> updates]
  ELSE LET st == MergeItems(call.body, 1,
                            [table |-> pairsTable, id |-> nextId, issued |-> updates,
                             results |-> <<>>])
       IN [call |-> [call EXCEPT !.state = "handled", !.code = 200,
                                 !.results = st.results],
           table |-> st.table, id |-> st.id, issued |-> st.issued]

\* The remote state after a handled batch call
RemoteAfter(h) ==
  /\ pairsTable' = h.table
  /\ nextId' = h.id
  /\ updates' = h.issued
  /\ UNCHANGED <<now, asset_tags, reqs, dbFaults, adminVars>>

\* GET /api/asset-tags: SELECT * FROM asset_tags [WHERE updated_at > since]
SelectAssetTags(since) ==
  {[tag |-> t, status |-> asset_tags[t].status, last_serial |-> asset_tags[t].last_serial,
    updated_at |-> asset_tags[t].updated_at] :
     t \in {u \in DOMAIN asset_tags :
              ~since.present \/ TextGreater(asset_tags[u].updated_at, since.ts)}}

\* A clearing that keeps the upload queue
ClearUserDataKeepQueue ==
  /\ pairs' = <<>>
  /\ uploadQueue' = uploadQueue
  /\ authTokens' = <<>>

\* dbHelpers.clearUserData
ClearUserData ==
  /\ pairs' = <<>>
  /\ uploadQueue' = <<>>
  /\ authTokens' = <<>>

(***************************************************************************)
(* Client: connectivity and the cache refresh (NetworkManager, App).       *)
(***************************************************************************)
remoteFrame == <<asset_tags, pairsTable, nextId, reqs, updates, dbFaults, adminVars>>

IdleRun == [pc |-> "idle", batches |-> <<>>, idx |-> 1, call |-> NoCall, j |-> 1,
            message |-> "",
            \* history of the run
            attempted |-> <<>>, failed |-> {}, pendingAtStart |-> {},
            errorAtStart |-> {}]
IdleSync == [pc |-> "idle", since |-> NoSince, call |-> NoCall, rows |-> {},
             \* history: what the cache held when the refresh started
             seenAtStart |-> <<>>, emptyAtStart |-> TRUE]
IdleBuilder == [pc |-> "idle", assetTag |-> "", serial |-> "", outcome |-> "",
                named |-> NoSerial]
\* The Login screen: no call of api.login is running
IdleLogin == [pc |-> "idle", n |-> 0, call |-> NoCall]
IdleList == [pairs |-> <<>>, isOnline |-> TRUE, pc |-> "idle", call |-> NoCall,
             sent |-> <<>>, j |-> 1]

\* syncAssetTags up to its fetch: the watermark is read from the cache
StartSync == [IdleSync EXCEPT !.pc = "call", !.since = LastUpdatedAt,
                              !.call = SentCall(<<>>),
                              !.seenAtStart = remoteSeen,
                              !.emptyAtStart = (DOMAIN assetTags = {})]

\* processOfflineQueue up to its loop: the pending batches are read
StartRun ==
  [IdleRun EXCEPT !.pc = IF getPendingUploads = <<>> THEN "done" ELSE "next",
                  !.batches = getPendingUploads,
                  !.pendingAtStart = {k \in DOMAIN uploadQueue :
                                        uploadQueue[k].status = "pending"},
                  !.errorAtStart = {k \in DOMAIN uploadQueue :
                                      uploadQueue[k].status = "error"}]

FreeSlot(k) == replay[k].pc \in {"idle", "done"} /\ sync[k].pc = "idle"

\* window 'offline'
GoOffline ==
  /\ isOnline
  /\ isOnline' = FALSE
  /\ list' = IF isLoggedIn THEN [list EXCEPT !.isOnline = FALSE] ELSE list
  /\ UNCHANGED <<now, remoteFrame, pairs, nextPairId, uploadQueue, nextBatchId, assetTags,
                 authTokens, isLoggedIn, login, replay, sync, builder, netFaults, remoteSeen>>

\* window 'online': the listeners run (App starts syncAssetTags, PairList
\* records the status), then processOfflineQueue starts
GoOnline ==
  /\ ~isOnline
  /\ \E k \in DOMAIN replay :
       /\ FreeSlot(k)
       /\ \A j \in 1..(k - 1) : ~FreeSlot(j)
       /\ sync' = [sync EXCEPT ![k] = StartSync]
       /\ replay' = [replay EXCEPT ![k] = StartRun]
  /\ isOnline' = TRUE
  /\ authTokens' = TokensAfterRead
  /\ list' = IF isLoggedIn THEN [list EXCEPT !.isOnline = TRUE] ELSE list
  /\ UNCHANGED <<now, remoteFrame, pairs, nextPairId, uploadQueue, nextBatchId, assetTags,
                 isLoggedIn, login, builder, netFaults, remoteSeen>>

\* GET /api/asset-tags handled by the remote authority
RemoteAssetTags(k) ==
  /\ sync[k].pc = "call"
  /\ sync[k].call.state = "sent"
  /\ sync' = [sync EXCEPT ![k].call.state = "handled",
                          ![k].call.code = AuthCode(sync[k].call),
                          ![k].rows = IF AuthCode(sync[k].call) = 200
                                      THEN SelectAssetTags(sync[k].since) ELSE {}]
  /\ UNCHANGED <<now, remoteFrame, isOnline, pairs, nextPairId, uploadQueue, nextBatchId,
                 assetTags, authTokens, isLoggedIn, login, replay, builder, list, netFaults,
                 remoteSeen>>

\* The cache made of the returned records alone
UpsertAllReplace(cache, rows) ==
  [t \in {r.tag : r \in rows} |->
     LET r == CHOOSE x \in rows : x.tag = t
     IN [tag |-> t, status |-> r.status, last_serial |-> r.last_serial,
         updated_at |-> IsoTimestamp(now)]]

\* for (const tag of assetTags) updateAssetTag(tag.tag, tag.status, tag.last_serial)
RECURSIVE UpsertAll(_, _)
UpsertAll(cache, rows) ==
  IF rows = {} THEN cache
  ELSE LET r == CHOOSE x \in rows : TRUE
       IN UpsertAll(updateAssetTag(cache, r.tag, r.status, r.last_serial), rows \ {r})

GreatestUpdatedAt(rows, seen) ==
  LET stamps == {r.updated_at : r \in rows} \cup {seen[i] : i \in DOMAIN seen}
  IN IF stamps = {} THEN <<>>
     ELSE <<CHOOSE a \in stamps : \A b \in stamps : ~TextGreater(b, a)>>

\* The response of the cache refresh arrives
SyncReceive(k) ==
  /\ sync[k].pc = "call"
  /\ sync[k].call.state = "handled"
  /\ sync' = [sync EXCEPT ![k] = IdleSync]
  /\ IF sync[k].call.code = 401
     THEN /\ ClearUserData
          /\ UNCHANGED <<assetTags, remoteSeen>>
     ELSE IF sync[k].call.code # 200
     THEN UNCHANGED <<assetTags, remoteSeen, pairs, uploadQueue, authTokens>>
     ELSE /\ assetTags' = UpsertAll(assetTags, sync[k].rows)
          /\ remoteSeen' = GreatestUpdatedAt(sync[k].rows, remoteSeen)
          /\ UNCHANGED <<pairs, uploadQueue, authTokens>>
  /\ UNCHANGED <<now, remoteFrame, isOnline, nextPairId, nextBatchId, isLoggedIn, login, replay,
                 builder, list, netFaults>>

\* fetch of the cache refresh rejects
SyncFault(k) ==
  /\ sync[k].pc = "call"
  /\ netFaults < MaxNetFaults
  /\ netFaults' = netFaults + 1
  /\ sync' = [sync EXCEPT ![k] = IdleSync]
  /\ UNCHANGED <<now, remoteFrame, isOnline, pairs, nextPairId, uploadQueue, nextBatchId,
                 assetTags, authTokens, isLoggedIn, login, replay, builder, list, remoteSeen>>

(***************************************************************************)
(* Client: replay of the queued batches (processOfflineQueue).             *)
(***************************************************************************)
\* The loop moves to the next batch, or ends
AfterBatch(run) ==
  IF run.idx + 1 > Len(run.batches)
  THEN [run EXCEPT !.pc = "done", !.call = NoCall, !.j = 1]
  ELSE [run EXCEPT !.pc = "next", !.idx = @ + 1, !.call = NoCall, !.j = 1]

\* The catch block of a batch without the loop going on
AfterFailureAbort(run) == [run EXCEPT !.pc = "done", !.call = NoCall, !.j = 1]

\* The catch block of a batch with the loop trying the same batch again
AfterFailureRetry(run) == [run EXCEPT !.pc = "next", !.call = NoCall, !.j = 1]

\* The catch block of a batch is inside the loop: the loop goes on
AfterFailure(run) == AfterBatch(run)

\* if (success) updateAssetTag(result.asset_tag, 'used', result.serial), with
\* the serial of another entry of the response
ProjectTagOther(cache, results, j) ==
  IF IsSuccess(results[j])
  THEN updateAssetTag(cache, results[j].asset_tag, "used", results[1].serial)
  ELSE cache

\* if (success) updateAssetTag(result.asset_tag, 'used', result.serial)
ProjectTag(cache, results, j) ==
  IF IsSuccess(results[j])
  THEN updateAssetTag(cache, results[j].asset_tag, "used", results[j].serial)
  ELSE cache

\* results.find(r => r.asset_tag === pair.asset_tag && r.serial === pair.serial)
FindResult(results, item) ==
  LET hits == {i \in 1..Len(results) : results[i].asset_tag = item.asset_tag
                                        /\ results[i].serial = item.serial}
  IN IF hits = {} THEN <<>> ELSE <<results[MinOf(hits)]>>

\* if (result && success)
\*   pairs.where({asset_tag, serial}).modify({status: 'uploaded'})
MarkUploaded(table, item, results) ==
  IF FindResult(results, item) # <<>> /\ IsSuccess(FindResult(results, item)[1])
  THEN [id \in DOMAIN table |->
          IF table[id].asset_tag = item.asset_tag /\ table[id].serial = item.serial
          THEN [table[id] EXCEPT !.status = "uploaded"]
          ELSE table[id]]
  ELSE table

CurrentBatch(k) == replay[k].batches[replay[k].idx]

\* api.uploadPairs(batch.items) up to its fetch
ReplaySend(k) ==
  /\ replay[k].pc = "next"
  /\ authTokens' = TokensAfterRead
  /\ replay' = [replay EXCEPT ![k].pc = "call",
                              ![k].call = SentCall(UploadData(CurrentBatch(k).items)),
                              ![k].attempted = Append(@, CurrentBatch(k).id)]
  /\ UNCHANGED <<now, remoteFrame, isOnline, pairs, nextPairId, uploadQueue, nextBatchId,
                 assetTags, isLoggedIn, login, sync, builder, list, netFaults, remoteSeen>>

\* The remote authority handles the upload of a queued batch
RemoteUpload(k) ==
  /\ replay[k].pc = "call"
  /\ replay[k].call.state = "sent"
  /\ Cardinality(updates) + Len(replay[k].call.body) <= MaxIssued
  /\ LET h == HandleBatch(replay[k].call) IN
       /\ replay' = [replay EXCEPT ![k].call = h.call]
       /\ RemoteAfter(h)
  /\ UNCHANGED <<isOnline, pairs, nextPairId, uploadQueue, nextBatchId, assetTags,
                 authTokens, isLoggedIn, login, sync, builder, list, netFaults, remoteSeen>>

\* The response arrives: 401 clears the user data and throws
ReplayReceive(k) ==
  /\ replay[k].pc = "call"
  /\ replay[k].call.state = "handled"
  /\ IF replay[k].call.code = 401
     THEN /\ ClearUserData
          /\ replay' = [replay EXCEPT ![k].pc = "failed",
                                      ![k].message = "Authentication required"]
     ELSE IF replay[k].call.code # 200
     THEN /\ replay' = [replay EXCEPT ![k].pc = "failed", ![k].message = "API Error"]
          /\ UNCHANGED <<pairs, uploadQueue, authTokens>>
     ELSE /\ replay' = [replay EXCEPT ![k].pc = "tags", ![k].j = 1]
          /\ UNCHANGED <<pairs, uploadQueue, authTokens>>
  /\ UNCHANGED <<now, remoteFrame, isOnline, nextPairId, nextBatchId, assetTags, isLoggedIn, login,
                 sync, builder, list, netFaults, remoteSeen>>

\* for (const result of results): one result updates the asset-tag cache
ReplayTag(k) ==
  /\ replay[k].pc = "tags"
  /\ replay[k].j <= Len(replay[k].call.results)
  /\ assetTags' = ProjectTag(assetTags, replay[k].call.results, replay[k].j)
  /\ replay' = [replay EXCEPT ![k].j = @ + 1]
  /\ UNCHANGED <<now, remoteFrame, isOnline, pairs, nextPairId, uploadQueue, nextBatchId,
                 authTokens, isLoggedIn, login, sync, builder, list, netFaults, remoteSeen>>

\* uploadQueue.update(batch.id, {status: 'done'})
ReplayMarkDone(k) ==
  /\ replay[k].pc = "tags"
  /\ replay[k].j > Len(replay[k].call.results)
  /\ uploadQueue' = UpdateStatus(uploadQueue, CurrentBatch(k).id, "done")
  /\ replay' = [replay EXCEPT ![k].pc = "pairs", ![k].j = 1]
  /\ UNCHANGED <<now, remoteFrame, isOnline, pairs, nextPairId, nextBatchId, assetTags,
                 authTokens, isLoggedIn, login, sync, builder, list, netFaults, remoteSeen>>

\* for (const pair of batch.items): the status of the pairs of one item
ReplayPair(k) ==
  /\ replay[k].pc = "pairs"
  /\ pairs' = MarkUploaded(pairs, CurrentBatch(k).items[replay[k].j], replay[k].call.results)
  /\ replay' = [replay EXCEPT ![k] = IF @.j < Len(CurrentBatch(k).items)
                                     THEN [@ EXCEPT !.j = @ + 1]
                                     ELSE AfterBatch(@)]
  /\ UNCHANGED <<now, remoteFrame, isOnline, nextPairId, uploadQueue, nextBatchId, assetTags,
                 authTokens, isLoggedIn, login, sync, builder, list, netFaults, remoteSeen>>

\* fetch of the upload rejects
ReplayFault(k) ==
  /\ replay[k].pc = "call"
  /\ netFaults < MaxNetFaults
  /\ netFaults' = netFaults + 1
  /\ replay' = [replay EXCEPT ![k].pc = "failed", ![k].message = "Failed to fetch"]
  /\ UNCHANGED <<now, remoteFrame, isOnline, pairs, nextPairId, uploadQueue, nextBatchId,
                 assetTags, authTokens, isLoggedIn, login, sync, builder, list, remoteSeen>>

\* An update of the queue that leaves the status of the batch as it is
MarkErrorMessageOnly(queue, id, message) ==
  IF id \in DOMAIN queue
  THEN [queue EXCEPT ![id].error_message = message]
  ELSE queue

\* uploadQueue.update(batch.id, {status: 'error', error_message}): nothing
\* happens when the batch is no longer stored
MarkError(queue, id, message) ==
  IF id \in DOMAIN queue
  THEN [queue EXCEPT ![id].status = "error", ![id].error_message = message]
  ELSE queue

\* catch: the batch is marked error, the loop goes on
ReplayFail(k) ==
  /\ replay[k].pc = "failed"
  /\ uploadQueue' = MarkError(uploadQueue, CurrentBatch(k).id, replay[k].message)
  /\ replay' = [replay EXCEPT ![k] = AfterFailure([@ EXCEPT !.failed = @ \cup {CurrentBatch(k).id}])]
  /\ UNCHANGED <<now, remoteFrame, isOnline, pairs, nextPairId, nextBatchId, assetTags,
                 authTokens, isLoggedIn, login, sync, builder, list, netFaults, remoteSeen>>

(***************************************************************************)
(* Client: admission of a scanned pair (PairBuilder).                      *)
(***************************************************************************)
\* canAddPair
canAddPair(assetTag, serial) == Trim(assetTag) # "" /\ Trim(serial) # ""

\* The conflict test without the comparison of the serials
IsConflictUsed(info, serial) == info.status = "used" /\ info.last_serial # NoSerial

\* assetTagInfo.status === 'used' && assetTagInfo.last_serial &&
\* assetTagInfo.last_serial !== serial.trim()
IsConflict(info, serial) ==
  info.status = "used" /\ info.last_serial # NoSerial /\ info.last_serial # Trim(serial)

\* validateAndAddPair that registers an unknown tag without asking
AdmissionSilent(form) ==
  IF ~canAddPair(form.assetTag, form.serial)
  THEN [form EXCEPT !.pc = "idle", !.outcome = "required", !.named = NoSerial]
  ELSE [form EXCEPT !.pc = "adding", !.outcome = "admitted", !.named = NoSerial]

\* validateAndAddPair up to addPair: what the form shows next
Admission(form) ==
  IF ~canAddPair(form.assetTag, form.serial)
  THEN [form EXCEPT !.pc = "idle", !.outcome = "required", !.named = NoSerial]
  ELSE IF Trim(form.assetTag) \notin DOMAIN assetTags
  THEN [form EXCEPT !.pc = "dialog", !.outcome = "unknown", !.named = NoSerial]
  ELSE IF IsConflict(assetTags[Trim(form.assetTag)], form.serial)
  THEN [form EXCEPT !.pc = "idle", !.outcome = "conflict",
                    !.named = assetTags[Trim(form.assetTag)].last_serial]
  ELSE [form EXCEPT !.pc = "adding", !.outcome = "admitted", !.named = NoSerial]

builderFrame == <<now, remoteFrame, isOnline, uploadQueue, nextBatchId, authTokens,
                  isLoggedIn, login, replay, sync, netFaults, remoteSeen>>

\* The operator fills the form and presses Add Pair
ValidateAndAddPair(assetTag, serial) ==
  /\ isLoggedIn
  /\ builder.pc = "idle"
  /\ builder' = Admission([builder EXCEPT !.assetTag = assetTag, !.serial = serial])
  /\ builder'.pc \in {"adding", "dialog"} => nextPairId <= MaxPairs
  /\ UNCHANGED <<builderFrame, pairs, nextPairId, assetTags, list>>

\* dbHelpers.addPair, then onPairAdded: the list reloads
AddPair ==
  /\ builder.pc = "adding"
  /\ pairs' = PutRow(pairs, nextPairId,
                     NewPair(nextPairId, Trim(builder.assetTag), Trim(builder.serial)))
  /\ nextPairId' = nextPairId + 1
  /\ builder' = [IdleBuilder EXCEPT !.outcome = "saved"]
  /\ list' = [list EXCEPT !.pairs =
                RowsInKeyOrder(pairs', {k \in DOMAIN pairs' : pairs'[k].status = "pending"})]
  /\ UNCHANGED <<builderFrame, assetTags>>

\* "Yes, add tag": updateAssetTag(assetTag.trim(), 'unused')
ConfirmMissingTag ==
  /\ isLoggedIn
  /\ builder.pc = "dialog"
  /\ assetTags' = updateAssetTag(assetTags, Trim(builder.assetTag), "unused", NoSerial)
  /\ builder' = [builder EXCEPT !.pc = "revalidate"]
  /\ UNCHANGED <<builderFrame, pairs, nextPairId, list>>

\* ... then validateAndAddPair() again
Revalidate ==
  /\ builder.pc = "revalidate"
  /\ builder' = Admission(builder)
  /\ UNCHANGED <<builderFrame, pairs, nextPairId, assetTags, list>>

\* "Cancel"
CancelMissingTag ==
  /\ isLoggedIn
  /\ builder.pc = "dialog"
  /\ builder' = [IdleBuilder EXCEPT !.outcome = "cancelled"]
  /\ UNCHANGED <<builderFrame, pairs, nextPairId, assetTags, list>>

(***************************************************************************)
(* Client: the list of pending pairs and its upload (PairList).            *)
(***************************************************************************)
\* loadPairs: dbHelpers.getPendingPairs, on the table the handler leaves
LoadPairs(table) ==
  RowsInKeyOrder(table, {k \in DOMAIN table : table[k].status = "pending"})

\* deletePair(pair.id) of a listed pair
DeletePair(i) ==
  /\ isLoggedIn
  /\ i \in 1..Len(list.pairs)
  /\ pairs' = DeleteRow(pairs, list.pairs[i].id)
  /\ list' = [list EXCEPT !.pairs = LoadPairs(pairs')]
  /\ UNCHANGED <<builderFrame, nextPairId, assetTags, builder>>

\* for (const pair of pairs) pairs.update(pair.id, {status: 'pending'})
RECURSIVE MarkPending(_, _)
MarkPending(table, items) ==
  IF items = <<>> THEN table
  ELSE MarkPending(UpdateStatus(table, Head(items).id, "pending"), Tail(items))

\* uploadPairs while the list believes it is online: up to the fetch
UploadDirect ==
  /\ isLoggedIn
  /\ list.pc = "idle"
  /\ list.pairs # <<>>
  /\ list.isOnline
  /\ authTokens' = TokensAfterRead
  /\ list' = [list EXCEPT !.pc = "call", !.call = SentCall(UploadData(list.pairs)),
                          !.sent = list.pairs]
  /\ UNCHANGED <<now, remoteFrame, isOnline, pairs, nextPairId, uploadQueue, nextBatchId,
                 assetTags, isLoggedIn, login, replay, sync, builder, netFaults, remoteSeen>>

\* uploadPairs while the list believes it is offline: the listed pairs are queued
QueueOffline ==
  /\ isLoggedIn
  /\ list.pc = "idle"
  /\ list.pairs # <<>>
  /\ ~list.isOnline
  /\ nextBatchId <= MaxBatches
  /\ uploadQueue' = PutRow(uploadQueue, nextBatchId, NewBatch(nextBatchId, list.pairs))
  /\ nextBatchId' = nextBatchId + 1
  /\ pairs' = MarkPending(pairs, list.pairs)
  /\ list' = [list EXCEPT !.pairs = LoadPairs(pairs')]
  /\ UNCHANGED <<now, remoteFrame, isOnline, nextPairId, assetTags, authTokens, isLoggedIn, login,
                 replay, sync, builder, netFaults, remoteSeen>>

\* The remote authority handles the direct upload
RemoteDirect ==
  /\ list.pc = "call"
  /\ list.call.state = "sent"
  /\ Cardinality(updates) + Len(list.call.body) <= MaxIssued
  /\ LET h == HandleBatch(list.call) IN
       /\ list' = [list EXCEPT !.call = h.call]
       /\ RemoteAfter(h)
  /\ UNCHANGED <<isOnline, pairs, nextPairId, uploadQueue, nextBatchId, assetTags,
                 authTokens, isLoggedIn, login, replay, sync, builder, netFaults, remoteSeen>>

\* The response of the direct upload arrives: 401 clears the user data and throws
DirectReceive ==
  /\ list.pc = "call"
  /\ list.call.state = "handled"
  /\ IF list.call.code = 401
     THEN /\ ClearUserData
          /\ list' = [list EXCEPT !.pc = "idle", !.call = NoCall, !.sent = <<>>]
     ELSE IF list.call.code # 200
     THEN /\ list' = [list EXCEPT !.pc = "idle", !.call = NoCall, !.sent = <<>>]
          /\ UNCHANGED <<pairs, uploadQueue, authTokens>>
     ELSE /\ list' = [list EXCEPT !.pc = "project", !.j = 1]
          /\ UNCHANGED <<pairs, uploadQueue, authTokens>>
  /\ UNCHANGED <<now, remoteFrame, isOnline, nextPairId, nextBatchId, assetTags, isLoggedIn, login,
                 replay, sync, builder, netFaults, remoteSeen>>

\* for (i < results.length): success marks its tag used and pairs[i] uploaded,
\* anything else marks pairs[i] error; after the last one the list reloads
DirectProject ==
  /\ list.pc = "project"
  /\ LET results == list.call.results
         j == list.j
         table == UpdateStatus(pairs, list.sent[j].id,
                               IF IsSuccess(results[j]) THEN "uploaded" ELSE "error")
     IN /\ assetTags' = ProjectTag(assetTags, results, j)
        /\ pairs' = table
        /\ list' = IF j < Len(results)
                   THEN [list EXCEPT !.j = j + 1]
                   ELSE [list EXCEPT !.pc = "idle", !.call = NoCall, !.sent = <<>>,
                                     !.j = 1, !.pairs = LoadPairs(table)]
  /\ UNCHANGED <<now, remoteFrame, isOnline, nextPairId, uploadQueue, nextBatchId,
                 authTokens, isLoggedIn, login, replay, sync, builder, netFaults, remoteSeen>>

\* fetch of the direct upload rejects
DirectFault ==
  /\ list.pc = "call"
  /\ netFaults < MaxNetFaults
  /\ netFaults' = netFaults + 1
  /\ list' = [list EXCEPT !.pc = "idle", !.call = NoCall, !.sent = <<>>]
  /\ UNCHANGED <<now, remoteFrame, isOnline, pairs, nextPairId, uploadQueue, nextBatchId,
                 assetTags, authTokens, isLoggedIn, login, replay, sync, builder, remoteSeen>>

\* The service worker handles a 'sync' event: processUploadQueue posts
\* PROCESS_UPLOAD_QUEUE, the App bumps refreshTrigger, the list reloads
SyncMessage ==
  /\ isLoggedIn
  /\ list' = [list EXCEPT !.pairs = LoadPairs(pairs)]
  /\ UNCHANGED <<builderFrame, pairs, nextPairId, assetTags, builder>>

\* App.handleLogout: api.logout() clears the user data
Logout ==
  /\ isLoggedIn
  /\ ClearUserData
  /\ isLoggedIn' = FALSE
  /\ login' = login
  /\ UNCHANGED <<now, remoteFrame, isOnline, nextPairId, nextBatchId, assetTags, replay,
                 sync, builder, list, netFaults, remoteSeen>>

(***************************************************************************)
(* The client after a login on a fresh installation: the token is stored,  *)
(* the cache is empty and the first cache refresh is on its way.           *)
(***************************************************************************)
ClientInit ==
  /\ isOnline = TRUE
  /\ pairs = <<>>
  /\ nextPairId = 1
  /\ uploadQueue = <<>>
  /\ nextBatchId = 1
  /\ assetTags = <<>>
  /\ authTokens = ("current" :> NewToken)
  /\ isLoggedIn = TRUE
  /\ login = IdleLogin
  /\ replay = [k \in 1..MaxRuns |-> IdleRun]
  /\ sync = [k \in 1..MaxRuns |->
               IF k = 1 THEN [IdleSync EXCEPT !.pc = "call",
                                              !.call = [NoCall EXCEPT !.state = "sent",
                                                                      !.hasToken = TRUE,
                                                                      !.token = JwtExp]]
               ELSE IdleSync]
  /\ builder = IdleBuilder
  /\ list = IdleList
  /\ netFaults = 0
  /\ remoteSeen = <<>>

\* The remote authority after another device has paired AT1 with S2
ServerInitUsed ==
  /\ asset_tags = [t \in sampleTags |->
                     IF t = "AT1"
                     THEN [status |-> "used", last_serial |-> "S2",
                           updated_at |-> SqlTimestamp(0)]
                     ELSE [status |-> "unused", last_serial |-> NoSerial,
                           updated_at |-> SqlTimestamp(0)]]
  /\ pairsTable = {[id |-> 1, asset_tag |-> "AT1", serial |-> "S2",
                    assigned_by |-> RemoteUser, assigned_at |-> IsoTimestamp(0)]}
  /\ nextId = 2
  /\ reqs = <<>>
  /\ updates = {}
  /\ dbFaults = 0
  /\ replaces = <<>>
  /\ searchOut = NoSearch

ClientInitAll ==
  /\ now = 0
  /\ ServerInit \/ ServerInitUsed
  /\ ClientInit

ReplayNext ==
  \E k \in DOMAIN replay :
    \/ ReplaySend(k)
    \/ RemoteUpload(k)
    \/ ReplayReceive(k)
    \/ ReplayTag(k)
    \/ ReplayMarkDone(k)
    \/ ReplayPair(k)
    \/ ReplayFault(k)
    \/ ReplayFail(k)

SyncNext ==
  \E k \in DOMAIN replay :
    \/ RemoteAssetTags(k)
    \/ SyncReceive(k)
    \/ SyncFault(k)

BuilderNext ==
  \/ \E assetTag \in TagInputs : \E serial \in SerialInputs :
       ValidateAndAddPair(assetTag, serial)
  \/ AddPair
  \/ ConfirmMissingTag
  \/ Revalidate
  \/ CancelMissingTag

\* Admission of pairs while the cache is refreshed; nothing is uploaded.
AdmissionNext ==
  \/ GoOffline
  \/ GoOnline
  \/ SyncNext
  \/ BuilderNext
  \/ \E i \in 1..MaxPairs : DeletePair(i)
  \/ Logout

SpecAdmission == ClientInitAll /\ [][AdmissionNext]_vars

\* The cache refresh over time, while other devices upload
RefreshNext ==
  \/ Tick
  \/ GoOffline
  \/ GoOnline
  \/ SyncNext
  \/ \E body \in BatchBodies : ReceiveBatch(body, MaxOtherLoad)
  \/ BatchNext

\* The client right after a login in the first or in the second half of a day
RefreshInitAll ==
  /\ now \in {0, 1}
  /\ ServerInit \/ ServerInitUsed
  /\ ClientInit

SpecRefresh == RefreshInitAll /\ [][RefreshNext]_vars

\* The lists of pairs the operator can have admitted
ScannedPairs ==
  {[asset_tag |-> "AT1", serial |-> "S1"], [asset_tag |-> "AT1", serial |-> "S2"],
   [asset_tag |-> "AT9", serial |-> "S1"]}
ScannedLists ==
  {<<a>> : a \in ScannedPairs}
    \cup {<<a, b>> : a \in {[asset_tag |-> "AT1", serial |-> "S1"]}, b \in ScannedPairs}

\* The client after the first cache refresh and the admission of some pairs
\* (AT9 through the missing-tag dialog); nothing has been uploaded yet.
ScannedInit ==
  /\ isOnline = TRUE
  /\ \E scanned \in ScannedLists :
       /\ pairs = [id \in 1..Len(scanned) |->
                     [id |-> id, asset_tag |-> scanned[id].asset_tag,
                      serial |-> scanned[id].serial, scanned_at |-> 0,
                      status |-> "pending"]]
       /\ nextPairId = Len(scanned) + 1
  /\ uploadQueue = <<>>
  /\ nextBatchId = 1
  /\ assetTags = [t \in sampleTags \cup {"AT9"} |->
                    [tag |-> t, status |-> "unused", last_serial |-> NoSerial,
                     updated_at |-> IsoTimestamp(0)]]
  /\ authTokens = ("current" :> NewToken)
  /\ isLoggedIn = TRUE
  /\ login = IdleLogin
  /\ replay = [k \in 1..MaxRuns |-> IdleRun]
  /\ sync = [k \in 1..MaxRuns |-> IdleSync]
  /\ builder = IdleBuilder
  /\ list = [IdleList EXCEPT !.pairs = LoadPairs(pairs)]
  /\ netFaults = 0
  /\ remoteSeen = <<SqlTimestamp(0)>>

UploadInitAll ==
  /\ now = 0
  /\ ServerInit
  /\ ScannedInit

\* Upload of admitted pairs, directly and through the queue
UploadNext ==
  \/ GoOffline
  \/ GoOnline
  \/ ReplayNext
  \/ SyncNext
  \/ UploadDirect
  \/ QueueOffline
  \/ RemoteDirect
  \/ DirectReceive
  \/ DirectProject
  \/ DirectFault
  \/ \E u \in updates : ApplyUpdate(u)

SpecUpload == UploadInitAll /\ [][UploadNext]_vars

\* The client offline with one admitted pair queued in an UploadBatch, after
\* a login and a cache refresh at the present time
QueuedClient(runs) ==
  /\ isOnline = FALSE
  /\ pairs = <<[id |-> 1, asset_tag |-> "AT1", serial |-> "S1", scanned_at |-> 0,
                status |-> "pending"]>>
  /\ nextPairId = 2
  /\ uploadQueue = PutRow(<<>>, 1, NewBatch(1, LoadPairs(pairs)))
  /\ nextBatchId = 2
  /\ assetTags = [t \in sampleTags |->
                    [tag |-> t, status |-> "unused", last_serial |-> NoSerial,
                     updated_at |-> IsoTimestamp(now)]]
  /\ authTokens = ("current" :> NewToken)
  /\ isLoggedIn = TRUE
  /\ login = IdleLogin
  /\ replay = [k \in 1..runs |-> IdleRun]
  /\ sync = [k \in 1..runs |-> IdleSync]
  /\ builder = IdleBuilder
  /\ list = [IdleList EXCEPT !.pairs = LoadPairs(pairs), !.isOnline = FALSE]
  /\ netFaults = 0
  /\ remoteSeen = <<SqlTimestamp(0)>>

\* Online events can arrive while the replay and the refresh of an earlier
\* online event are still running
OverlapInitAll ==
  /\ now = 0
  /\ ServerInit
  /\ QueuedClient(MaxOverlap)

\* The replays and refreshes of the online events
OverlapNext ==
  \/ GoOffline
  \/ GoOnline
  \/ ReplayNext
  \/ SyncNext
  \/ \E u \in updates : ApplyUpdate(u)

SpecOverlap == OverlapInitAll /\ [][OverlapNext]_vars

\* The upload of another device for the tag of the queued pair
OtherBodies == {<<[asset_tag |-> "AT1", serial |-> "S2", scanned_at |-> 1]>>}

\* The queued pair in the second half of a day
InterleaveInitAll ==
  /\ now = 1
  /\ ServerInit
  /\ QueuedClient(MaxRuns)

\* Replay and refresh of an online event while another device uploads and
\* the clock runs
InterleaveNext ==
  \/ Tick
  \/ GoOffline
  \/ GoOnline
  \/ ReplayNext
  \/ SyncNext
  \/ \E body \in OtherBodies : ReceiveBatch(body, MaxOtherLoad)
  \/ BatchNext

SpecInterleave == InterleaveInitAll /\ [][InterleaveNext]_vars

\* The client with two admitted pairs, of a known and of an unknown tag
AuthInitAll ==
  /\ UploadInitAll
  /\ Len(list.pairs) = 2
  /\ pairs[2].asset_tag = "AT9"

\* Upload and refresh while the clock runs and the stored token expires
AuthNext ==
  \/ Tick
  \/ GoOffline
  \/ GoOnline
  \/ ReplayNext
  \/ SyncNext
  \/ UploadDirect
  \/ QueueOffline
  \/ RemoteDirect
  \/ DirectReceive
  \/ DirectProject
  \/ DirectFault
  \/ \E u \in updates : ApplyUpdate(u)

SpecAuth == AuthInitAll /\ [][AuthNext]_vars

\* The list of pending pairs while uploads, replays and refreshes run: the
\* operator deletes pairs, the service worker announces a background sync
ListNext ==
  \/ GoOffline
  \/ GoOnline
  \/ ReplayNext
  \/ SyncNext
  \/ UploadDirect
  \/ QueueOffline
  \/ RemoteDirect
  \/ DirectReceive
  \/ DirectProject
  \/ DirectFault
  \/ SyncMessage
  \/ \E i \in 1..MaxPairs : DeletePair(i)
  \/ \E u \in updates : ApplyUpdate(u)

SpecList == AuthInitAll /\ [][ListNext]_vars

(***************************************************************************)
(* Client: the session (ApiClient.login, the Login screen, App).           *)
(***************************************************************************)
Credentials == {"password123", "wrong"}

sessionFrame == <<now, remoteFrame, isOnline, pairs, nextPairId, uploadQueue, nextBatchId,
                  assetTags, replay, builder, list, remoteSeen>>

\* api.login up to its fetch; the Login screen is shown while not logged in
LoginSend(password) ==
  /\ ~isLoggedIn
  /\ login.pc = "idle"
  /\ login.n < MaxLogins
  /\ login' = [pc |-> "call", n |-> login.n + 1,
               call |-> [NoCall EXCEPT !.state = "sent", !.body = <<password>>]]
  /\ UNCHANGED <<sessionFrame, authTokens, isLoggedIn, sync, netFaults>>

\* POST /api/auth/login handled by the remote authority
RemoteLogin ==
  /\ login.pc = "call"
  /\ login.call.state = "sent"
  /\ login' = [login EXCEPT
                 !.call.state = "handled",
                 !.call.code = IF login.call.body = <<"password123">> THEN 200 ELSE 401,
                 !.call.token = IF login.call.body = <<"password123">> THEN JwtExp ELSE 0]
  /\ UNCHANGED <<sessionFrame, authTokens, isLoggedIn, sync, netFaults>>

\* api.login after its fetch: a refusal is thrown as "Login failed", otherwise
\* storeAuthToken starts by clearing the table
LoginReceive ==
  /\ login.pc = "call"
  /\ login.call.state = "handled"
  /\ IF login.call.code = 200
     THEN /\ authTokens' = <<>>
          /\ login' = [login EXCEPT !.pc = "store"]
     ELSE /\ authTokens' = authTokens
          /\ login' = [login EXCEPT !.pc = "idle", !.call = NoCall]
  /\ UNCHANGED <<sessionFrame, isLoggedIn, sync, netFaults>>

\* storeAuthToken's add, which fails on an existing key; then api.login returns
\* and handleLoginSuccess runs: the App is logged in and, when online, starts
\* a cache refresh
LoginStore ==
  /\ login.pc = "store"
  /\ login' = [login EXCEPT !.pc = "idle", !.call = NoCall]
  /\ IF "current" \in DOMAIN authTokens
     THEN UNCHANGED <<authTokens, isLoggedIn, sync>>
     ELSE /\ isLoggedIn' = TRUE
          /\ IF isOnline
             THEN \E k \in DOMAIN replay :
                    /\ FreeSlot(k)
                    /\ \A j \in 1..(k - 1) : ~FreeSlot(j)
                    /\ LET row == StoredToken(login.call.token)
                           stored == PutRow(authTokens, row.id, row)
                       IN /\ authTokens' = stored
                          /\ sync' = [sync EXCEPT ![k] =
                                        [StartSync EXCEPT !.call.hasToken = TRUE,
                                                          !.call.token = row.token]]
             ELSE /\ LET row == StoredToken(login.call.token)
                     IN authTokens' = PutRow(authTokens, row.id, row)
                  /\ sync' = sync
  /\ UNCHANGED <<sessionFrame, netFaults>>

\* The fetch of api.login fails: "Failed to fetch" reaches the Login screen
LoginFault ==
  /\ login.pc = "call"
  /\ netFaults < MaxNetFaults
  /\ netFaults' = netFaults + 1
  /\ login' = [login EXCEPT !.pc = "idle", !.call = NoCall]
  /\ UNCHANGED <<sessionFrame, authTokens, isLoggedIn, sync>>

\* A fresh installation: nobody is logged in, nothing is stored
SessionInit ==
  /\ isOnline = TRUE
  /\ pairs = <<>>
  /\ nextPairId = 1
  /\ uploadQueue = <<>>
  /\ nextBatchId = 1
  /\ assetTags = <<>>
  /\ authTokens = <<>>
  /\ isLoggedIn = FALSE
  /\ login = IdleLogin
  /\ replay = [k \in 1..MaxRuns |-> IdleRun]
  /\ sync = [k \in 1..MaxRuns |-> IdleSync]
  /\ builder = IdleBuilder
  /\ list = IdleList
  /\ netFaults = 0
  /\ remoteSeen = <<>>

SessionInitAll ==
  /\ now = 0
  /\ ServerInit
  /\ SessionInit

\* Logins, logouts, token expiry and cache refreshes
SessionNext ==
  \/ Tick
  \/ GoOffline
  \/ GoOnline
  \/ SyncNext
  \/ \E password \in Credentials : LoginSend(password)
  \/ RemoteLogin
  \/ LoginReceive
  \/ LoginStore
  \/ LoginFault
  \/ Logout

SpecSession == SessionInitAll /\ [][SessionNext]_vars


(***************************************************************************)
(* Claims about the remote batch merge.                                    *)
(***************************************************************************)
Quiescent == updates = {} /\ \A r \in 1..Len(reqs) : reqs[r].responded

TagView == [t \in DOMAIN asset_tags |->
              <<asset_tags[t].status, asset_tags[t].last_serial>>]

\* Request r repeats the body of the request before it; each of the two was
\* received when every earlier request had been answered and no statement was
\* left to execute, and r is the last request received.
IsResubmission(r) ==
  /\ r = Len(reqs)
  /\ r > 1
  /\ reqs[r].quiet
  /\ reqs[r - 1].quiet
  /\ reqs[r].body = reqs[r - 1].body
  /\ reqs[r].body # <<>>

\* C1: a batch submitted a second time, with no other write in between, leaves
\* (status, last_serial) of every AssetTag as the first submission left them,
\* and every item of the second response whose asset_tag exists is
\* ok_overwrite_same_pair.
C1_Idempotent ==
  \A r \in 1..Len(reqs) :
    (IsResubmission(r) /\ Quiescent) =>
      /\ TagView = reqs[r].tagsBefore
      /\ \A i \in 1..Len(reqs[r].body) :
            reqs[r].body[i].asset_tag \in DOMAIN asset_tags =>
              reqs[r].response[i].status = "ok_overwrite_same_pair"

\* C2: the response to a batch of N items has exactly N entries, and entry i
\* carries the asset_tag and serial of request item i, in whatever order the
\* items' database callbacks completed.
C2_ResponseAligned ==
  \A r \in 1..Len(reqs) :
    reqs[r].responded =>
      /\ Len(reqs[r].response) = Len(reqs[r].body)
      /\ \A i \in 1..Len(reqs[r].body) :
            /\ reqs[r].response[i].asset_tag = reqs[r].body[i].asset_tag
            /\ reqs[r].response[i].serial = reqs[r].body[i].serial

\* A two-item batch answered after item 2 completed before item 1.
C2_Witness ==
  \E r \in 1..Len(reqs) :
    /\ reqs[r].responded
    /\ reqs[r].order = <<2, 1>>
    /\ reqs[r].body[1] # reqs[r].body[2]

(***************************************************************************)
(* Replay of the queue on reconnect.                                       *)
(***************************************************************************)
BatchIds(run) == [i \in 1..Len(run.batches) |-> run.batches[i].id]

\* C3: every UploadBatch with status error at an online transition is
\* submitted again by the replay that transition starts.
C3_ErrorBatchesReplayed ==
  \A k \in DOMAIN replay :
    replay[k].pc = "done" =>
      \A id \in replay[k].errorAtStart :
        \E i \in 1..Len(replay[k].attempted) : replay[k].attempted[i] = id

\* C4: the replay an online transition starts submits each UploadBatch that
\* was pending at the transition exactly once, in ascending creation order,
\* and goes on to the later batches when one fails.
C4_PendingReplayedOnce ==
  \A k \in DOMAIN replay :
    LET run == replay[k]
        ids == BatchIds(run)
    IN /\ {ids[i] : i \in 1..Len(ids)} = run.pendingAtStart
       /\ \A i, j \in 1..Len(ids) : i < j => ids[i] < ids[j]
       /\ Len(run.attempted) <= Len(ids)
       /\ \A i \in 1..Len(run.attempted) : run.attempted[i] = ids[i]
       /\ run.pc = "next" => Len(run.attempted) = run.idx - 1
       /\ run.pc \in {"call", "tags", "pairs", "failed"} => Len(run.attempted) = run.idx
       /\ run.pc = "done" => run.attempted = ids

C4_Witness ==
  \E k \in DOMAIN replay :
    /\ replay[k].pc = "done"
    /\ Len(replay[k].batches) = 2
    /\ replay[k].batches[1].id \in replay[k].failed
    /\ replay[k].attempted = <<replay[k].batches[1].id, replay[k].batches[2].id>>

\* The steps of a replay that end the handling of a response
MarksDone(k) == replay[k].pc = "tags" /\ replay'[k].pc = "pairs"
ProjectsTag(k) == replay[k].pc = "tags" /\ replay'[k].j = replay[k].j + 1
ProjectsPair(k) == replay[k].pc = "pairs" /\ replay'[k] # replay[k]
EndsProjection(k) == replay[k].pc = "pairs" /\ replay'[k].pc \in {"next", "done"}
DirectProjects == list.pc = "project" /\ (list'.j = list.j + 1 \/ list'.pc = "idle")
DirectEndsProjection == list.pc = "project" /\ list'.pc = "idle"

\* C5: a replayed batch one of whose items did not succeed ends with status
\* error and an error message; a batch ends done only if every item succeeded.
C5_PartialFailureMarksError ==
  [][\A k \in DOMAIN replay :
       (MarksDone(k) /\ CurrentBatch(k).id \in DOMAIN uploadQueue') =>
         LET results == replay[k].call.results
             batch == uploadQueue'[CurrentBatch(k).id]
         IN /\ (\E i \in 1..Len(results) : ~IsSuccess(results[i])) =>
                 (batch.status = "error" /\ batch.error_message # "")
            /\ batch.status = "done" => \A i \in 1..Len(results) : IsSuccess(results[i])]_vars

(***************************************************************************)
(* Projection of the response items on the local pairs and the cache.      *)
(***************************************************************************)
CachedAs(cache, tag, status, serial) ==
  /\ tag \in DOMAIN cache
  /\ cache[tag].status = status
  /\ cache[tag].last_serial = serial

CacheEntry(cache, tag) == IF tag \in DOMAIN cache THEN <<cache[tag]>> ELSE <<>>

HasStatus(table, id, status) == id \in DOMAIN table => table[id].status = status

IsRejection(result) == result.status \in {"missing_asset_tag", "asset_tag_in_use"}

\* C6 (as stated): when the direct upload or the replay has projected a
\* response, the Pair of every successful response item is uploaded and the
\* cached AssetTag of its tag is used with the serial of that item.
C6_SuccessProjected ==
  [][/\ \A k \in DOMAIN replay :
          EndsProjection(k) =>
            \A i \in 1..Len(replay[k].call.results) :
              IsSuccess(replay[k].call.results[i]) =>
                /\ HasStatus(pairs', CurrentBatch(k).items[i].id, "uploaded")
                /\ CachedAs(assetTags', replay[k].call.results[i].asset_tag, "used",
                            replay[k].call.results[i].serial)
     /\ DirectEndsProjection =>
          \A i \in 1..Len(list.call.results) :
            IsSuccess(list.call.results[i]) =>
              /\ HasStatus(pairs', list.sent[i].id, "uploaded")
              /\ CachedAs(assetTags', list.call.results[i].asset_tag, "used",
                          list.call.results[i].serial)]_vars

\* C6 (amended): the response items are projected one at a time in response
\* order.  The projection of a successful item sets the cached AssetTag of its
\* tag to used with the serial of that item; the direct upload marks the Pair
\* at the position of the item uploaded, the replay marks uploaded every local
\* Pair with the asset_tag and serial of a batch item whose first response
\* entry with that asset_tag and serial is a success.
C6_SuccessWritten ==
  [][/\ \A k \in DOMAIN replay :
          LET results == replay[k].call.results
              j == replay[k].j
          IN /\ (ProjectsTag(k) /\ IsSuccess(results[j])) =>
                  CachedAs(assetTags', results[j].asset_tag, "used", results[j].serial)
             /\ ProjectsPair(k) =>
                  LET item == CurrentBatch(k).items[j]
                      hits == {i \in 1..Len(results) :
                                 /\ results[i].asset_tag = item.asset_tag
                                 /\ results[i].serial = item.serial}
                  IN (\E h \in hits : IsSuccess(results[h]) /\ \A g \in hits : h <= g) =>
                       \A id \in DOMAIN pairs' :
                         (pairs'[id].asset_tag = item.asset_tag
                            /\ pairs'[id].serial = item.serial) =>
                           pairs'[id].status = "uploaded"
     /\ (DirectProjects /\ IsSuccess(list.call.results[list.j])) =>
          /\ CachedAs(assetTags', list.call.results[list.j].asset_tag, "used",
                      list.call.results[list.j].serial)
          /\ HasStatus(pairs', list.sent[list.j].id, "uploaded")]_vars

C6_Witness ==
  \E k \in DOMAIN replay :
    LET results == replay[k].call.results IN
      /\ replay[k].pc = "pairs"
      /\ replay[k].j = 2
      /\ Len(results) = 2
      /\ IsSuccess(results[1]) /\ IsSuccess(results[2])
      /\ results[1].asset_tag = results[2].asset_tag
      /\ results[1].serial # results[2].serial
      /\ CachedAs(assetTags, results[2].asset_tag, "used", results[2].serial)
      /\ CurrentBatch(k).items[1].id \in DOMAIN pairs
      /\ pairs[CurrentBatch(k).items[1].id].status = "uploaded"

\* C7: when the direct upload or the replay has projected a response, the Pair
\* of every response item with status missing_asset_tag (or asset_tag_in_use)
\* has status error, and the projection of such an item leaves the cache entry
\* of its tag as it was.
C7_MissingTagProjected ==
  [][/\ \A k \in DOMAIN replay :
          LET results == replay[k].call.results IN
            /\ EndsProjection(k) =>
                 \A i \in 1..Len(results) :
                   IsRejection(results[i]) =>
                     HasStatus(pairs', CurrentBatch(k).items[i].id, "error")
            /\ (ProjectsTag(k) /\ IsRejection(results[replay[k].j])) =>
                 CacheEntry(assetTags', results[replay[k].j].asset_tag)
                   = CacheEntry(assetTags, results[replay[k].j].asset_tag)
     /\ DirectEndsProjection =>
          \A i \in 1..Len(list.call.results) :
            IsRejection(list.call.results[i]) => HasStatus(pairs', list.sent[i].id, "error")
     /\ (DirectProjects /\ IsRejection(list.call.results[list.j])) =>
          CacheEntry(assetTags', list.call.results[list.j].asset_tag)
            = CacheEntry(assetTags, list.call.results[list.j].asset_tag)]_vars

(***************************************************************************)
(* Admission of a pair.                                                    *)
(***************************************************************************)
\* The steps of an admission
Decides == builder.pc \in {"idle", "revalidate"} /\ builder' # builder
Reruns == builder.pc = "revalidate" /\ builder' # builder
Confirms == builder.pc = "dialog" /\ builder'.pc = "revalidate"
Cancels == builder.pc = "dialog" /\ builder'.pc = "idle"
Adds == builder.pc = "adding" /\ builder' # builder

\* The step adds exactly one pending Pair, with the submitted tag and serial
AddsOnePair(tag, serial) ==
  \E id \in DOMAIN pairs' \ DOMAIN pairs :
    /\ DOMAIN pairs' = DOMAIN pairs \cup {id}
    /\ pairs'[id].asset_tag = tag
    /\ pairs'[id].serial = serial
    /\ pairs'[id].status = "pending"
    /\ \A other \in DOMAIN pairs : pairs'[other] = pairs[other]

\* C8: with the submitted tag cached as used with a last_serial different from
\* the submitted serial, admission is rejected with an error naming the cached
\* serial and creates no Pair; with an equal last_serial or an unused tag it
\* creates one new pending Pair, whatever Pairs exist already.
C8_ConflictRule ==
  [][/\ (Decides /\ canAddPair(builder'.assetTag, builder'.serial)
           /\ Trim(builder'.assetTag) \in DOMAIN assetTags) =>
          LET info == assetTags[Trim(builder'.assetTag)] IN
            IF info.status = "used" /\ info.last_serial # Trim(builder'.serial)
            THEN /\ builder'.pc = "idle"
                 /\ builder'.outcome = "conflict"
                 /\ builder'.named = info.last_serial
                 /\ pairs' = pairs
            ELSE builder'.pc = "adding"
     /\ Adds => AddsOnePair(Trim(builder.assetTag), Trim(builder.serial))]_vars

C8_Witness ==
  /\ builder.pc = "idle"
  /\ builder.outcome = "conflict"
  /\ builder.named = "S2"
  /\ Trim(builder.serial) = "S1"
  /\ \E a, b \in DOMAIN pairs :
       /\ a # b
       /\ pairs[a].asset_tag = pairs[b].asset_tag
       /\ pairs[a].serial = pairs[b].serial
       /\ pairs[a].asset_tag = Trim(builder.assetTag)
       /\ pairs[a].serial = builder.named

\* C9 (as stated): admitting a pair whose tag is not cached creates no Pair and
\* no cache entry; the confirmation registers the tag as unused, the re-run of
\* the admission then creates the pending Pair; cancelling changes nothing.
C9_UnknownTagFlow ==
  [][/\ (Decides /\ canAddPair(builder'.assetTag, builder'.serial)
           /\ Trim(builder'.assetTag) \notin DOMAIN assetTags) =>
          (builder'.pc = "dialog" /\ pairs' = pairs /\ assetTags' = assetTags)
     /\ Confirms =>
          /\ CachedAs(assetTags', Trim(builder.assetTag), "unused", NoSerial)
          /\ \A t \in DOMAIN assetTags \ {Trim(builder.assetTag)} :
               CacheEntry(assetTags', t) = CacheEntry(assetTags, t)
          /\ pairs' = pairs
     /\ Reruns => builder'.pc = "adding"
     /\ Adds => AddsOnePair(Trim(builder.assetTag), Trim(builder.serial))
     /\ Cancels => (pairs' = pairs /\ assetTags' = assetTags)]_vars

\* C9 (amended): as stated, except that the re-run of the admission creates
\* the pending Pair unless the cache by then holds the tag as used with a
\* different serial; it is then rejected with the conflict error and creates
\* no Pair.
C9_UnknownTagFlowRerun ==
  [][/\ (Decides /\ canAddPair(builder'.assetTag, builder'.serial)
           /\ Trim(builder'.assetTag) \notin DOMAIN assetTags) =>
          (builder'.pc = "dialog" /\ pairs' = pairs /\ assetTags' = assetTags)
     /\ Confirms =>
          /\ CachedAs(assetTags', Trim(builder.assetTag), "unused", NoSerial)
          /\ \A t \in DOMAIN assetTags \ {Trim(builder.assetTag)} :
               CacheEntry(assetTags', t) = CacheEntry(assetTags, t)
          /\ pairs' = pairs
     /\ Reruns =>
          /\ Trim(builder.assetTag) \in DOMAIN assetTags
          /\ LET info == assetTags[Trim(builder.assetTag)] IN
               IF info.status = "used" /\ info.last_serial # Trim(builder.serial)
               THEN /\ builder'.pc = "idle"
                    /\ builder'.outcome = "conflict"
                    /\ builder'.named = info.last_serial
                    /\ pairs' = pairs
               ELSE builder'.pc = "adding"
     /\ Adds => AddsOnePair(Trim(builder.assetTag), Trim(builder.serial))
     /\ Cancels => (pairs' = pairs /\ assetTags' = assetTags)]_vars

C9_Witness ==
  /\ builder.pc = "idle"
  /\ builder.outcome = "saved"
  /\ CachedAs(assetTags, "AT9", "unused", NoSerial)
  /\ \E id \in DOMAIN pairs : pairs[id].asset_tag = "AT9" /\ pairs[id].status = "pending"

(***************************************************************************)
(* The cache refresh.                                                      *)
(***************************************************************************)
\* C10: a cache refresh that starts after the cache has stored records
\* received from the remote, the greatest remote updated_at among them being
\* T0, asks for the records after T0 (since = T0); a refresh without a
\* watermark starts only from an empty cache.
C10_WatermarkIsRemoteTime ==
  \A k \in DOMAIN sync :
    sync[k].pc = "call" =>
      /\ sync[k].seenAtStart # <<>> =>
           (sync[k].since.present /\ sync[k].since.ts.t = sync[k].seenAtStart[1].t)
      /\ ~sync[k].since.present => sync[k].emptyAtStart

\* A refresh ends: its response is stored, or its request has failed
EndsRefresh(k) == sync[k].pc = "call" /\ sync'[k].pc = "idle"
\* ... with the response of the remote received, and not a 401
Answered(k) ==
  /\ sync[k].call.state = "handled"
  /\ sync[k].call.code = 200
  /\ netFaults' = netFaults

\* C11: a cache refresh stores, for every record the remote returned, a cache
\* entry with the record's tag, status and last_serial, and leaves every
\* cached entry whose tag is not in the response as it was; no step of a
\* refresh removes a cache entry, and a refresh whose response is empty or
\* whose request failed (in transit, or with a 401) leaves the cache unchanged.
C11_RefreshUpserts ==
  [][\A k \in DOMAIN sync :
       /\ sync'[k] # sync[k] => DOMAIN assetTags \subseteq DOMAIN assetTags'
       /\ (EndsRefresh(k) /\ Answered(k)) =>
            /\ \A r \in sync[k].rows : CachedAs(assetTags', r.tag, r.status, r.last_serial)
            /\ \A t \in DOMAIN assetTags :
                 t \notin {r.tag : r \in sync[k].rows} =>
                   (t \in DOMAIN assetTags' /\ assetTags'[t] = assetTags[t])
       /\ (EndsRefresh(k) /\ (~Answered(k) \/ sync[k].rows = {})) =>
            assetTags' = assetTags]_vars

\* A refresh has stored AT1 as used while the entry of AT2, absent from that
\* response, kept the stamp of an earlier refresh
C11_Witness ==
  /\ CachedAs(assetTags, "AT1", "used", "S1")
  /\ CachedAs(assetTags, "AT2", "unused", NoSerial)
  /\ assetTags["AT2"].updated_at.t < assetTags["AT1"].updated_at.t

(***************************************************************************)
(* The remote history: replace, search, append-only, uniqueness.           *)
(***************************************************************************)
\* The INSERT of a replace succeeds in this step
ReplaceSucceeds(r) == replaces[r].pc = "insert" /\ replaces'[r].code = 200

\* C12: a successful replace leaves every history record that existed before
\* it present and unchanged and adds exactly one record, which carries the
\* replacement asset_tag and serial, the requesting user and a timestamp
\* later than that of the replaced record.
C12_ReplaceAudit ==
  [][\A r \in DOMAIN replaces :
       ReplaceSucceeds(r) =>
         /\ pairsTable \subseteq pairsTable'
         /\ \E p \in pairsTable' :
              /\ pairsTable' \ pairsTable = {p}
              /\ p.asset_tag = ReplacementOf(replaces[r]).asset_tag
              /\ p.serial = ReplacementOf(replaces[r]).serial
              /\ p.assigned_by = RemoteUser
              /\ TextGreater(p.assigned_at, replaces[r].existing.assigned_at)]_vars

\* C13: the history a search returns is ordered by assignment time
\* descending: of two entries, the earlier in the list was assigned no
\* earlier than the later in the list.
C13_SearchNewestFirst ==
  searchOut.code = 200 =>
    \A i, j \in DOMAIN searchOut.history :
      i < j => ~TextGreater(searchOut.history[j].assigned_at,
                            searchOut.history[i].assigned_at)

\* C14: the remote history is append-only: no step of a batch upload (a
\* re-submission of a recorded (asset_tag, serial) included) or of a replace
\* removes a history record or changes its assigned_by or assigned_at.
C14_HistoryAppendOnly ==
  [][\A p \in pairsTable :
       \E q \in pairsTable' :
         /\ q.asset_tag = p.asset_tag
         /\ q.serial = p.serial
         /\ q.assigned_by = p.assigned_by
         /\ q.assigned_at = p.assigned_at]_vars

\* C15: in every state of the remote authority the history holds at most one
\* record per (asset_tag, serial), whatever batches were uploaded, uploaded
\* again or replaced.
C15_RemoteUnique ==
  \A p, q \in pairsTable :
    (p.asset_tag = q.asset_tag /\ p.serial = q.serial) => p = q

HasResult(status, tag, serial) ==
  \E r \in DOMAIN reqs : \E i \in DOMAIN reqs[r].results :
    /\ reqs[r].results[i].status = status
    /\ reqs[r].results[i].asset_tag = tag
    /\ reqs[r].results[i].serial = serial

\* A recorded pair has been uploaded again and a replace has added a record
C15_Witness ==
  /\ HasResult("ok_overwrite_same_pair", "AT1", "S1")
  /\ \E r \in DOMAIN replaces : replaces[r].code = 200
  /\ Cardinality(pairsTable) = 2

\* The history record of the merge most recently applied to a tag
IsLastMerge(p) ==
  /\ p \in pairsTable
  /\ \A q \in pairsTable : q.asset_tag = p.asset_tag => q.id <= p.id

\* C16: every AssetTag with status used, in the remote table and in the
\* local cache, has last_serial set; on the remote, once the issued updates
\* have executed, last_serial is the serial of the merge (batch item or
\* replace) most recently applied to the tag.
C16_UsedHasLastSerial ==
  /\ \A t \in DOMAIN assetTags :
       assetTags[t].status = "used" => assetTags[t].last_serial # NoSerial
  /\ \A t \in DOMAIN asset_tags :
       asset_tags[t].status = "used" =>
         /\ asset_tags[t].last_serial # NoSerial
         /\ updates = {} =>
              \E p \in pairsTable : /\ IsLastMerge(p)
                                    /\ p.asset_tag = t
                                    /\ p.serial = asset_tags[t].last_serial

(***************************************************************************)
(* The outcomes of the batch merge.                                        *)
(***************************************************************************)
\* Item i of request r leaves the given statement in this step, without a
\* database error
Leaves(r, i, pc) ==
  /\ reqs[r].pc[i] = pc
  /\ reqs'[r].pc[i] # pc
  /\ dbFaults' = dbFaults

\* C17: the merge of an item whose asset_tag is not in the remote table
\* ends at the lookup of the tag with the outcome missing_asset_tag and
\* writes nothing: the history, the AssetTag table and the issued updates
\* stay as they are, no statement of the item goes further, and the other
\* items of the batch stay where they are in their own processing.
C17_MissingTagWritesNothing ==
  [][\A r \in DOMAIN reqs : \A i \in DOMAIN reqs[r].body :
       LET item == reqs[r].body[i] IN
       item.asset_tag \notin DOMAIN asset_tags =>
         /\ reqs[r].pc[i] \in {"get1", "done"}
         /\ Leaves(r, i, "get1") =>
              /\ reqs'[r].pc[i] = "done"
              /\ reqs'[r].results[i] =
                   ItemResult("missing_asset_tag", item, "Asset tag not found")
              /\ UNCHANGED <<pairsTable, nextId, asset_tags, updates>>
              /\ \A j \in DOMAIN reqs[r].body :
                   j # i => (/\ reqs'[r].pc[j] = reqs[r].pc[j]
                             /\ reqs'[r].status[j] = reqs[r].status[j])]_vars

\* A batch of an unknown and a known tag has been answered: the first item
\* rejected, the second recorded
C17_Witness ==
  \E r \in DOMAIN reqs :
    /\ reqs[r].responded
    /\ Len(reqs[r].response) = 2
    /\ reqs[r].response[1].status = "missing_asset_tag"
    /\ reqs[r].response[2].status = "ok_inserted"
    /\ PairExists(reqs[r].body[2].asset_tag, reqs[r].body[2].serial)
    /\ ~PairExists(reqs[r].body[1].asset_tag, reqs[r].body[1].serial)

\* C18: for a batch item whose asset_tag exists remotely the outcome is
\* ok_overwrite_same_pair if and only if a history record with the same
\* (asset_tag, serial) exists when the item is merged (its INSERT OR REPLACE
\* executes), and ok_inserted otherwise.
C18_OutcomeTellsExistence ==
  [][\A r \in DOMAIN reqs : \A i \in DOMAIN reqs[r].body :
       LET item == reqs[r].body[i] IN
       (Leaves(r, i, "insert") /\ pairsTable' # pairsTable) =>
         reqs'[r].results[i].status =
           IF PairExists(item.asset_tag, item.serial)
           THEN "ok_overwrite_same_pair" ELSE "ok_inserted"]_vars

\* C19: the batch endpoint never answers asset_tag_in_use; an item naming a
\* tag that is used with another serial goes on to its INSERT as any other
\* item, the INSERT issues the update of the tag, and the update, when it
\* executes, leaves the AssetTag used with last_serial the item's serial.
C19_NeverRejectsUsedTag ==
  [][/\ \A r \in DOMAIN reqs' : \A i \in DOMAIN reqs'[r].results :
          reqs'[r].results[i].status # "asset_tag_in_use"
     /\ \A r \in DOMAIN reqs : \A i \in DOMAIN reqs[r].body :
          LET item == reqs[r].body[i] IN
          /\ Leaves(r, i, "get2") => reqs'[r].pc[i] = "insert"
          /\ Leaves(r, i, "insert") =>
               /\ PairExists(item.asset_tag, item.serial)'
               /\ \E u \in updates' \ updates :
                    u.tag = item.asset_tag /\ u.serial = item.serial
     /\ \A u \in updates \ updates' :
          u.tag \in DOMAIN asset_tags => CachedAs(asset_tags', u.tag, "used", u.serial)]_vars

\* A request received while AT1 was used with S1 has recorded (AT1, S2), and
\* AT1 is used with S2
C19_Witness ==
  /\ \E r \in DOMAIN reqs :
       /\ reqs[r].tagsBefore["AT1"] = <<"used", "S1">>
       /\ reqs[r].responded
       /\ \E i \in DOMAIN reqs[r].response :
            /\ reqs[r].response[i].status = "ok_inserted"
            /\ reqs[r].response[i].asset_tag = "AT1"
            /\ reqs[r].response[i].serial = "S2"
  /\ updates = {}
  /\ CachedAs(asset_tags, "AT1", "used", "S2")

(***************************************************************************)
(* Authentication.                                                         *)
(***************************************************************************)
\* The response of a remote call is received in this step, and it is a 401
Receives401(call, pc, pc2) ==
  /\ pc = "call"
  /\ call.state = "handled"
  /\ call.code = 401
  /\ pc2 # "call"
  /\ netFaults' = netFaults

\* C20: when the response of an authenticated remote call (the upload of a
\* queued batch, the direct upload, the cache refresh) is a 401, the client
\* removes the auth token, all Pairs and all UploadBatches, leaves the
\* asset-tag cache unchanged, and the call fails with the error
\* "Authentication required": no result of it is projected or stored.
C20_Unauthorized ==
  [][/\ \A k \in DOMAIN replay :
          Receives401(replay[k].call, replay[k].pc, replay'[k].pc) =>
            /\ pairs' = <<>> /\ uploadQueue' = <<>> /\ authTokens' = <<>>
            /\ assetTags' = assetTags
            /\ replay'[k].pc = "failed"
            /\ replay'[k].message = "Authentication required"
     /\ \A k \in DOMAIN sync :
          Receives401(sync[k].call, sync[k].pc, sync'[k].pc) =>
            /\ pairs' = <<>> /\ uploadQueue' = <<>> /\ authTokens' = <<>>
            /\ assetTags' = assetTags
            /\ sync'[k].pc = "idle"
     /\ Receives401(list.call, list.pc, list'.pc) =>
          /\ pairs' = <<>> /\ uploadQueue' = <<>> /\ authTokens' = <<>>
          /\ assetTags' = assetTags
          /\ list'.pc = "idle"]_vars

\* The upload of a queued batch of two pairs has been answered with a 401:
\* pairs, batches and token are gone, the cache is kept
C20_Witness ==
  /\ \E k \in DOMAIN replay :
       /\ replay[k].pc = "failed"
       /\ replay[k].message = "Authentication required"
       /\ Len(CurrentBatch(k).items) = 2
  /\ pairs = <<>>
  /\ uploadQueue = <<>>
  /\ authTokens = <<>>
  /\ DOMAIN assetTags = sampleTags \cup {"AT9"}

\* The response of a remote call is received in this step, and authenticateToken
\* has refused the call: 401 for a missing token, 403 for a rejected one
ReceivesRefusal(call, pc, pc2) ==
  /\ pc = "call"
  /\ call.state = "handled"
  /\ call.code \in {401, 403}
  /\ pc2 # "call"
  /\ netFaults' = netFaults

\* The client is left unauthenticated: token, Pairs and UploadBatches are
\* removed, the asset-tag cache is as before
EndsSession ==
  /\ pairs' = <<>>
  /\ uploadQueue' = <<>>
  /\ authTokens' = <<>>
  /\ assetTags' = assetTags

\* C21: whenever the remote authority refuses a call because its token is
\* missing, expired or otherwise rejected, the client removes the token, the
\* Pairs and the UploadBatches, keeps the asset-tag cache, and reports
\* "Authentication required" and no generic remote fault.
C21_RefusalEndsSession ==
  [][/\ \A k \in DOMAIN replay :
          ReceivesRefusal(replay[k].call, replay[k].pc, replay'[k].pc) =>
            /\ EndsSession
            /\ replay'[k].message = "Authentication required"
     /\ \A k \in DOMAIN sync :
          ReceivesRefusal(sync[k].call, sync[k].pc, sync'[k].pc) => EndsSession
     /\ ReceivesRefusal(list.call, list.pc, list'.pc) => EndsSession]_vars

(***************************************************************************)
(* The session.                                                            *)
(***************************************************************************)
\* api.login returns in this step: the token is stored, the App is logged in
LoginSucceeds == login.pc = "store" /\ ~isLoggedIn /\ isLoggedIn'

\* C22: the authTokens collection never holds a record under another key than
\* 'current', hence at most one record, whatever logins, logouts, expiry
\* checks and 401 invalidations have happened; and when a login succeeds the
\* collection holds exactly the token that login received.
C22_OneToken ==
  /\ DOMAIN authTokens \subseteq {"current"}
  /\ [][/\ DOMAIN authTokens' \subseteq {"current"}
        /\ \A k \in DOMAIN authTokens' : authTokens'[k].id = k
        /\ LoginSucceeds =>
             /\ DOMAIN authTokens' = {"current"}
             /\ authTokens'["current"].token = login.call.token
             /\ authTokens'["current"].expires_at = now + TicksPerDay]_vars

\* The operator has logged in, logged out and logged in again a tick later:
\* the one stored record is the token of the second login
C22_Witness ==
  /\ isLoggedIn
  /\ login.n = 2
  /\ now = 1
  /\ DOMAIN authTokens = {"current"}
  /\ authTokens["current"].token = 1 + TicksPerDay

\* A token record is stored whose expires_at is strictly in the future
ValidToken ==
  /\ "current" \in DOMAIN authTokens
  /\ authTokens["current"].expires_at > now

\* The call is sent in this step
Sends(call, call2) == call.state # "sent" /\ call2.state = "sent"

\* The call carries no token that has expired
NotExpired(call) == call.hasToken => call.token > now

\* C23: the client is authenticated exactly while a token record is stored
\* whose expires_at is strictly in the future, and no remote call is sent with
\* a token that has expired.
C23_AuthenticatedIffValidToken ==
  /\ [](isLoggedIn <=> ValidToken)
  /\ [][/\ \A k \in DOMAIN sync :
             Sends(sync[k].call, sync'[k].call) => NotExpired(sync'[k].call)
        /\ \A k \in DOMAIN replay :
             Sends(replay[k].call, replay'[k].call) => NotExpired(replay'[k].call)
        /\ Sends(list.call, list'.call) => NotExpired(list'.call)]_vars

(***************************************************************************)
(* The upload queue.                                                       *)
(***************************************************************************)
\* The status changes the lifecycle of an UploadBatch allows
BatchMoves ==
  {<<"pending", "uploading">>, <<"uploading", "done">>, <<"uploading", "error">>,
   <<"error", "uploading">>}

\* The upload call of batch b is in flight in a run of processOfflineQueue
InFlight(runs, b) ==
  \E k \in DOMAIN runs : runs[k].pc = "call" /\ runs[k].batches[runs[k].idx].id = b

\* C24: the status of an UploadBatch only moves pending -> uploading -> done,
\* pending -> uploading -> error or error -> uploading; it is uploading exactly
\* while the upload call of the batch is in flight; a batch that is done
\* keeps that status.
C24_BatchLifecycle ==
  [][\A b \in DOMAIN uploadQueue' :
       /\ (uploadQueue'[b].status = "uploading") <=> InFlight(replay', b)
       /\ b \in DOMAIN uploadQueue =>
            \/ uploadQueue'[b].status = uploadQueue[b].status
            \/ <<uploadQueue[b].status, uploadQueue'[b].status>> \in BatchMoves]_vars

\* The upload call of a replayed batch throws in this step, for a network
\* fault or a response that is neither a success nor a 401
UploadThrows(k) ==
  /\ replay[k].pc = "call"
  /\ replay'[k].pc = "failed"
  /\ replay'[k].message # "Authentication required"

\* The catch block of a replayed batch runs in this step, for such a fault
CatchesFault(k) ==
  /\ replay[k].pc = "failed"
  /\ replay'[k].pc # "failed"
  /\ replay[k].message # "Authentication required"

\* C25: when the upload call of a queued batch throws for a network fault or
\* a response that is neither a success nor a 401, the batch, if still
\* stored, ends with status error and the message of the fault, and neither
\* the throw nor the catch changes a Pair or a cached AssetTag.
C25_FaultMarksError ==
  [][\A k \in DOMAIN replay :
       /\ UploadThrows(k) =>
            /\ replay'[k].message \in {"Failed to fetch", "API Error"}
            /\ pairs' = pairs /\ assetTags' = assetTags /\ uploadQueue' = uploadQueue
       /\ CatchesFault(k) =>
            /\ pairs' = pairs /\ assetTags' = assetTags
            /\ replay'[k].pc \in {"next", "done"}
            /\ \A b \in DOMAIN uploadQueue :
                 IF b = CurrentBatch(k).id
                 THEN /\ uploadQueue'[b].status = "error"
                      /\ uploadQueue'[b].error_message = replay[k].message
                 ELSE uploadQueue'[b] = uploadQueue[b]]_vars

\* The upload of a queued batch of two pairs was answered 403: the batch is
\* in error with the message of the fault, both pairs are still pending
C25_Witness ==
  /\ \E k \in DOMAIN replay :
       /\ replay[k].pc = "done"
       /\ \E b \in replay[k].failed :
            /\ b \in DOMAIN uploadQueue
            /\ uploadQueue[b].status = "error"
            /\ uploadQueue[b].error_message = "API Error"
            /\ Len(uploadQueue[b].items) = 2
  /\ Len(pairs) = 2
  /\ \A i \in DOMAIN pairs : pairs[i].status = "pending"

\* A run of processOfflineQueue starts in this step
StartsRun(k) == replay[k].pc \in {"idle", "done"} /\ replay'[k] # replay[k]

\* The upload call of a queued batch is issued in this step
Submits(k) == replay[k].pc # "call" /\ replay'[k].pc = "call"

SubmitsList == list.pc = "idle" /\ (nextBatchId' # nextBatchId \/ list'.pc = "call")

\* C27: submitting the pending pairs while offline creates exactly one
\* UploadBatch, with status pending and with the currently pending Pairs in
\* order as its items, issues no remote call and leaves every Pair pending;
\* submitting while online creates no UploadBatch.
C27_OfflineSubmitQueues ==
  [][SubmitsList =>
       IF isOnline
       THEN uploadQueue' = uploadQueue
       ELSE /\ DOMAIN uploadQueue' = DOMAIN uploadQueue \cup {nextBatchId}
            /\ nextBatchId \notin DOMAIN uploadQueue
            /\ \A b \in DOMAIN uploadQueue : uploadQueue'[b] = uploadQueue[b]
            /\ uploadQueue'[nextBatchId].status = "pending"
            /\ uploadQueue'[nextBatchId].items = LoadPairs(pairs)
            /\ list'.pc = "idle"
            /\ list'.call = NoCall
            /\ \A id \in DOMAIN pairs' : pairs'[id].status = "pending"]_vars

\* The operator deletes the Pair id in this step
Deletes(id) ==
  /\ id \in DOMAIN pairs
  /\ id \notin DOMAIN pairs'
  /\ replay' = replay
  /\ sync' = sync
  /\ list'.pc = list.pc
  /\ isLoggedIn' = isLoggedIn

\* The Pair id is part of an upload call that is in flight
PairInFlight(id) ==
  \/ list.pc = "call" /\ \E i \in DOMAIN list.sent : list.sent[i].id = id
  \/ \E k \in DOMAIN replay :
       /\ replay[k].pc = "call"
       /\ \E i \in DOMAIN CurrentBatch(k).items : CurrentBatch(k).items[i].id = id

\* C28: the delete action of the operator removes only Pairs whose stored
\* status is pending and that are part of no upload call in flight, also when
\* the list on screen is older than a background replay.
C28_DeleteOnlyPending ==
  [][\A id \in DOMAIN pairs :
       Deletes(id) => pairs[id].status = "pending" /\ ~PairInFlight(id)]_vars

(***************************************************************************)
(* Search.                                                                 *)
(***************************************************************************)
\* C29: a search with a filter that matches no history record is answered 404
\* with no history, and every search answered 200 carries a non-empty history,
\* the records that matched.
C29_EmptySearchIsNotFound ==
  [][searchOut' # searchOut =>
       LET q == searchOut'.query IN
         /\ (q # NoSearch.query /\ MatchingRows(q) = {}) =>
              searchOut'.code = 404 /\ searchOut'.history = <<>>
         /\ searchOut'.code = 200 =>
              /\ Len(searchOut'.history) > 0
              /\ Len(searchOut'.history) = Cardinality(MatchingRows(q))]_vars

\* A search by serial was answered 404 while the history holds records of
\* other serials only
C29_Witness ==
  /\ searchOut.code = 404
  /\ searchOut.query.serial = "S1"
  /\ pairsTable # {}
  /\ MatchingRows(searchOut.query) = {}

(***************************************************************************)
(* Atomicity of the remote merge.                                          *)
(***************************************************************************)
\* The response of request r has been sent and reports item i as merged
AnsweredMerged(r, i) ==
  /\ reqs[r].responded
  /\ i \in DOMAIN reqs[r].response
  /\ IsSuccess(reqs[r].response[i])

\* C30: the history write of an item and the update of its AssetTag are one
\* step: when the response that reports an item as merged has been sent, the
\* AssetTag of the item is used, and once every request is answered and no
\* statement is left to execute, last_serial of a used tag is the serial of
\* the history record written last for that tag.
C30_MergeAtomic ==
  /\ \A r \in 1..Len(reqs) : \A i \in 1..Len(reqs[r].body) :
       AnsweredMerged(r, i) => asset_tags[reqs[r].body[i].asset_tag].status = "used"
  /\ Quiescent =>
       \A p \in pairsTable :
         IsLastMerge(p) => asset_tags[p.asset_tag].last_serial = p.serial

(***************************************************************************)
(* Convergence of the cache.                                               *)
(***************************************************************************)
\* The cache agrees with the remote table t on status and last_serial of
\* every remote tag
CacheAgrees(cache, t) ==
  \A tag \in DOMAIN t :
    /\ tag \in DOMAIN cache
    /\ cache[tag].status = t[tag].status
    /\ cache[tag].last_serial = t[tag].last_serial

\* C31: when the remote AssetTag table has stopped changing (every request is
\* answered, no statement is left to execute, and the response of the refresh
\* is what the remote would answer now), a successful cache refresh leaves
\* the cache in agreement with the remote on status and last_serial of every
\* remote tag.
C31_RefreshConverges ==
  [][\A k \in DOMAIN sync :
       (/\ EndsRefresh(k)
        /\ Answered(k)
        /\ Quiescent
        /\ sync[k].rows = SelectAssetTags(sync[k].since)) =>
         CacheAgrees(assetTags', asset_tags)]_vars

(***************************************************************************)
(* The replay after a 401.                                                 *)
(***************************************************************************)
\* An upload of the run has been answered with a 401 and nothing has failed
\* in the run since
Unauthorized(k) == replay[k].message = "Authentication required"

\* C32: once an upload of a replay run is answered with a 401, the run issues
\* no further upload call for the remaining batches, and its catch block
\* leaves the cleared Pairs, UploadBatches and token cleared.
C32_NoRetryAfter401 ==
  [][\A k \in DOMAIN replay :
       /\ (Submits(k) /\ replay'[k].batches = replay[k].batches) => ~Unauthorized(k)
       /\ (replay[k].pc = "failed" /\ replay'[k].pc # "failed" /\ Unauthorized(k)) =>
            /\ pairs' = pairs
            /\ uploadQueue' = uploadQueue
            /\ authTokens' = authTokens]_vars

(***************************************************************************)
(* The outcome of a replace.                                               *)
(***************************************************************************)
\* The INSERT of replace r ends in this step, after its lookup found a record
ReplaceEnds(r) == replaces[r].pc = "insert" /\ replaces'[r].pc = "done"

\* C33: every replace whose lookup finds a record inserts a new history
\* record with the resulting asset_tag and serial, issues the update of that
\* AssetTag to used with the resulting serial and answers success, also when
\* the resulting (asset_tag, serial) is already recorded in the history.
C33_ReplaceAlwaysSucceeds ==
  [][\A r \in DOMAIN replaces :
       ReplaceEnds(r) =>
         LET new == ReplacementOf(replaces[r]) IN
           /\ replaces'[r].code = 200
           /\ \E p \in pairsTable' \ pairsTable :
                p.asset_tag = new.asset_tag /\ p.serial = new.serial
           /\ \E u \in updates' \ updates :
                u.tag = new.asset_tag /\ u.serial = new.serial]_vars

(***************************************************************************)
(* What a search answers.                                                  *)
(***************************************************************************)
\* The history entry a search response shows for a history record
HistoryEntry(p) ==
  [serial |-> p.serial, assigned_at |-> p.assigned_at, assigned_by |-> p.assigned_by]

\* The history records of one asset tag
RecordsOf(tag) == {p \in pairsTable : p.asset_tag = tag}

\* C34: a search that matches names one asset tag, its history holds every
\* history record of that tag and no record of another tag, and its status is
\* that tag's current AssetTag status.
C34_SearchComplete ==
  [][(searchOut' # searchOut /\ searchOut'.code = 200) =>
       LET tag == searchOut'.asset_tag
           out == searchOut'.history IN
         /\ Len(out) = Cardinality(RecordsOf(tag))
         /\ {out[i] : i \in DOMAIN out} = {HistoryEntry(p) : p \in RecordsOf(tag)}
         /\ searchOut'.status = TagStatus(tag)]_vars

(***************************************************************************)
(* The AssetTag projection against the history.                            *)
(***************************************************************************)
\* No batch request, replace or issued statement is still under way
RemoteQuiet == Quiescent /\ \A r \in DOMAIN replaces : replaces[r].pc = "done"

\* C35: in every quiescent remote state, the last_serial of each used
\* AssetTag is the serial of that tag's history record with the greatest
\* assigned_at, the record a replace by asset_tag treats as most recent.
C35_ProjectionIsLatest ==
  RemoteQuiet =>
    \A t \in DOMAIN asset_tags :
      asset_tags[t].status = "used" =>
        \E p \in LatestRows("asset_tag", t) : p.serial = asset_tags[t].last_serial

(***************************************************************************)
(* Referential integrity of the remote store.                              *)
(***************************************************************************)
\* C36: every history record's asset_tag exists in the AssetTag table:
\* neither a batch upload nor a replace with a new_asset_tag creates a
\* history record for a tag the authority does not know.
C36_HistoryTagsKnown ==
  \A p \in pairsTable : p.asset_tag \in DOMAIN asset_tags

(***************************************************************************)
(* The status of a local Pair.                                             *)
(***************************************************************************)
\* C37: once a local Pair has status uploaded, no later step (queueing the
\* listed pairs while offline, a replay, a direct upload) sets its status
\* back to pending or to error.
C37_UploadedIsFinal ==
  [][\A id \in DOMAIN pairs \cap DOMAIN pairs' :
       pairs[id].status = "uploaded" => pairs'[id].status = "uploaded"]_vars

(***************************************************************************)
(* Overlapping replay runs.                                                *)
(***************************************************************************)
\* Run k has started and has not ended
Running(k) == replay[k].pc \notin {"idle", "done"}

\* Run k has issued the upload call of UploadBatch id
Attempted(k, id) == \E i \in DOMAIN replay[k].attempted : replay[k].attempted[i] = id

\* C38: when an online event starts a replay while the replay of an earlier
\* online event is still running, no UploadBatch is submitted by both runs,
\* and a batch one run has set to done is not set to error by the other.
C38_RunsDoNotOverlap ==
  [][/\ \A k \in DOMAIN replay :
          Submits(k) =>
            \A j \in DOMAIN replay \ {k} :
              Running(j) => ~Attempted(j, replay'[k].batches[replay'[k].idx].id)
     /\ \A id \in DOMAIN uploadQueue \cap DOMAIN uploadQueue' :
          uploadQueue[id].status = "done" => uploadQueue'[id].status # "error"]_vars

(***************************************************************************)
(* Replay and cache refresh of one online event.                           *)
(***************************************************************************)
\* The replay and the refresh started by online event k have both ended, the
\* later of the two in this step
BothFinish(k) ==
  /\ replay'[k].pc = "done" /\ sync'[k].pc = "idle"
  /\ replay[k].pc # "done" \/ sync[k].pc # "idle"
  /\ replay[k].pc # "idle"

\* The pairs of the batches of a run that the run has marked uploaded
UploadedBy(run, table) ==
  {item \in UNION {{b.items[j] : j \in DOMAIN b.items} :
                     b \in {run.batches[i] : i \in DOMAIN run.batches}} :
     item.id \in DOMAIN table /\ table[item.id].status = "uploaded"}

\* C39: when the replay and the cache refresh started by one online event
\* have both finished, the cached AssetTag of every pair the replay uploaded
\* successfully is used with that pair's serial.
C39_ReplayAndRefreshAgree ==
  [][\A k \in DOMAIN replay :
       BothFinish(k) =>
         \A item \in UploadedBy(replay'[k], pairs') :
           /\ item.asset_tag \in DOMAIN assetTags'
           /\ assetTags'[item.asset_tag].status = "used"
           /\ assetTags'[item.asset_tag].last_serial = item.serial]_vars

(***************************************************************************)
(* The response of a batch request.                                        *)
(***************************************************************************)
\* No database callback of request r is outstanding: nothing is left that
\* could send its response
NothingPending(r) == \A i \in 1..Len(reqs[r].body) : reqs[r].pc[i] = "done"

\* C40: every batch request whose body is an array is answered, with one
\* response of one entry per item, once none of its database callbacks is
\* outstanding, for every array length including 0 and whether the callbacks
\* ended in success or in error.
C40_BatchAlwaysAnswered ==
  \A r \in 1..Len(reqs) :
    NothingPending(r) =>
      reqs[r].responded /\ Len(reqs[r].response) = Len(reqs[r].body)

====
